---------------------------- MODULE Spec2Model ----------------------------
(***************************************************************************)
(* pigeon: template interpolation, required-variable validation, the Slack *)
(* DSL compiler and adapter, and the dispatch pipeline.                     *)
(*                                                                         *)
(* JavaScript strings are sequences of one-character strings, so that the  *)
(* token regular expression, trim and toUpperCase are computed character   *)
(* by character.  JSON-like trees are tagged records.  A thrown exception  *)
(* is a result record with ok = FALSE and the error that was thrown.       *)
(***************************************************************************)
EXTENDS Naturals, Integers, Sequences, FiniteSets, TLC

VARIABLES template, vars, env, seed, pc, vresult, iresult, rtoken, rresult, collected,
          msg, cresult, mresult,
          opts, stages, dresult, credentials, io, delivered, fileIndex,
          suspended

\* the template document, opts.vars, process.env, the clock / random source
vars_input == <<template, vars, env, seed>>
\* results of the validator, the interpolation engine and the resolver
vars_engine == <<vresult, iresult, rtoken, rresult, collected>>
\* the message given to the adapter, what compile and validate made of it
vars_compile == <<msg, cresult, mresult>>
\* requests and file reads made so far, what reached the channel, the
\* position of uploadFiles in destination.files
vars_send == <<io, delivered, fileIndex>>
\* one dispatch call: its options, the stages it started, its outcome
vars_dispatch == <<opts, stages, dresult, credentials, vars_send>>

\* the dispatch calls that wait at an await while this one runs
vars_tasks == <<suspended>>

vars_all == <<vars_input, pc, vars_engine, vars_compile, vars_dispatch, vars_tasks>>

-----------------------------------------------------------------------------
(* Bounds of the model *)

\* Nested resolveToken frames the engine's call stack holds before RangeError.
MaxCallDepth == 4
\* Caller variables supplied in the resolver/validator scenarios.
MaxCtxVars == 1
\* Caller variables supplied in the tree-interpolation scenarios.
MaxVars == 2
\* Declared variables of a template in the resolver/validator scenarios.
MaxDecl == 2

-----------------------------------------------------------------------------
(* Characters and strings *)

LowerLetters == <<"a","b","c","d","e","f","g","h","i","j","k","l","m",
                  "n","o","p","q","r","s","t","u","v","w","x","y","z">>
UpperLetters == <<"A","B","C","D","E","F","G","H","I","J","K","L","M",
                  "N","O","P","Q","R","S","T","U","V","W","X","Y","Z">>
Digits == {"0","1","2","3","4","5","6","7","8","9"}
WhiteSpace == {" ", "\t", "\n"}

Range(s) == { s[i] : i \in DOMAIN s }

\* String.prototype.toUpperCase, one character
UpperChar(c) ==
  IF \E i \in DOMAIN LowerLetters : LowerLetters[i] = c
  THEN UpperLetters[CHOOSE i \in DOMAIN LowerLetters : LowerLetters[i] = c]
  ELSE c

toUpperCase(s) == [i \in DOMAIN s |-> UpperChar(s[i])]

\* String.prototype.trim
trim(s) ==
  LET keep == { i \in DOMAIN s : s[i] \notin WhiteSpace } IN
  IF keep = {} THEN << >>
  ELSE LET lo == CHOOSE i \in keep : \A j \in keep : i <= j
           hi == CHOOSE i \in keep : \A j \in keep : j <= i
       IN SubSeq(s, lo, hi)

\* /^[A-Z_][A-Z0-9_]*$/.test(name)
ALL_CAPS_REGEX(name) ==
  /\ Len(name) >= 1
  /\ name[1] \in Range(UpperLetters) \cup {"_"}
  /\ \A i \in 2..Len(name) : name[i] \in Range(UpperLetters) \cup Digits \cup {"_"}

\* TOKEN_REGEX = /\{\{([^}]+)\}\}/ tried at index i of s: the index of the last
\* character of the match, or 0 when there is no match starting at i.
TOKEN_REGEX(s, i) ==
  IF ~(i + 1 <= Len(s) /\ s[i] = "{" /\ s[i + 1] = "{") THEN 0
  ELSE LET closes == { k \in (i + 2)..Len(s) : s[k] = "}" } IN
       IF closes = {} THEN 0
       ELSE LET j == CHOOSE k \in closes : \A m \in closes : k <= m IN
            IF j > i + 2 /\ j + 1 <= Len(s) /\ s[j + 1] = "}" THEN j + 1 ELSE 0

-----------------------------------------------------------------------------
(* Names and values used by the scenarios *)

N_now == <<"n","o","w">>
N_timestamp == <<"t","i","m","e","s","t","a","m","p">>
N_uuid == <<"u","u","i","d">>
N_a == <<"a">>
N_b == <<"b">>
N_USER == <<"U","S","E","R">>
N_User == <<"U","s","e","r">>
N_empty == << >>
N_toString == <<"t","o","S","t","r","i","n","g">>
N_constructor == <<"c","o","n","s","t","r","u","c","t","o","r">>
N_hasOwnProperty == <<"h","a","s","O","w","n","P","r","o","p","e","r","t","y">>
N_proto == <<"_","_","p","r","o","t","o","_","_">>

\* "{{" name "}}"
Tok(name) == <<"{","{">> \o name \o <<"}","}">>


V_v == <<"v">>
V_d == <<"d">>
V_e == <<"e">>

\* Values the built-ins produce from the clock / random source (seed).
SeedDigit(sd) == IF sd = 1 THEN "1" ELSE "2"
ObjectObject == <<"[","o","b","j","e","c","t"," ","O","b","j","e","c","t","]">>
FalseString == <<"f","a","l","s","e">>

-----------------------------------------------------------------------------
(* Results: a returned value or a thrown error *)

NoErr == [kind |-> "none", tokens |-> << >>]
OkStr(s) == [ok |-> TRUE, val |-> s, err |-> NoErr]
Throw(kind, tokens) == [ok |-> FALSE, val |-> << >>, err |-> [kind |-> kind, tokens |-> tokens]]

\* new MissingVariableError(tokens, templateName)
MissingVariableError(tokens) == Throw("MissingVariableError", tokens)
\* "Maximum call stack size exceeded"
RangeError == Throw("RangeError", << >>)
\* "BUILTINS[name] is not a function"
TypeError == Throw("TypeError", << >>)

-----------------------------------------------------------------------------
(* Plain JavaScript objects and the `in` operator *)

\* Properties every plain object inherits from Object.prototype (those the
\* scenarios use).
ObjectPrototype == { N_toString, N_constructor, N_hasOwnProperty, N_proto }

\* `name in obj` for a plain object held as a function from its own keys
HasProperty(obj, name) == name \in DOMAIN obj \/ name \in ObjectPrototype

\* own keys of an object held as a sequence of <<key, value>> entries
Keys(entries) == { entries[i][1] : i \in DOMAIN entries }
Get(entries, k) == entries[CHOOSE i \in DOMAIN entries : entries[i][1] = k][2]

\* const BUILTINS = { now, timestamp, uuid }
BUILTINS == { N_now, N_timestamp, N_uuid }

\* `name in BUILTINS`
InBUILTINS(name) == name \in BUILTINS \/ name \in ObjectPrototype

\* BUILTINS[name]() as the replace callback hands it on (coerced to a string)
CallBUILTIN(name, sd) ==
  IF name = N_now THEN OkStr(<<"T", SeedDigit(sd)>>)
  ELSE IF name = N_timestamp THEN OkStr(<<SeedDigit(sd)>>)
  ELSE IF name = N_uuid THEN OkStr(<<"f", "-", SeedDigit(sd)>>)
  ELSE IF name = N_toString THEN OkStr(ObjectObject)
  ELSE IF name = N_constructor THEN OkStr(ObjectObject)
  ELSE IF name = N_hasOwnProperty THEN OkStr(FalseString)
  ELSE TypeError

\* decl?.default !== undefined for decl = ctx.declaredVariables[name]
HasDefault(declared, name) == name \in Keys(declared) /\ Get(declared, name).hasDefault

-----------------------------------------------------------------------------
(* Token resolver *)

RECURSIVE resolveToken(_, _, _), ReplaceFrom(_, _, _, _)

\* value.replace(TOKEN_REGEX, (_match, token) => resolveToken(token, ctx)),
\* scanning from index i
ReplaceFrom(s, i, ctx, depth) ==
  IF i > Len(s) THEN OkStr(<< >>)
  ELSE LET e == TOKEN_REGEX(s, i) IN
       IF e = 0
       THEN LET rest == ReplaceFrom(s, i + 1, ctx, depth) IN
            IF rest.ok THEN OkStr(<<s[i]>> \o rest.val) ELSE rest
       ELSE LET r == resolveToken(SubSeq(s, i + 2, e - 2), ctx, depth) IN
            IF ~r.ok THEN r
            ELSE LET rest == ReplaceFrom(s, e + 1, ctx, depth) IN
                 IF rest.ok THEN OkStr(r.val \o rest.val) ELSE rest

\* resolveTokens with the regular expression's g flag lost: only the first
\* match is replaced
resolveTokensFirstMatchOnly(value, ctx, depth) ==
  LET starts == { i \in DOMAIN value : TOKEN_REGEX(value, i) # 0 } IN
  IF starts = {} THEN OkStr(value)
  ELSE LET i == CHOOSE k \in starts : \A m \in starts : k <= m
           e == TOKEN_REGEX(value, i)
           r == resolveToken(SubSeq(value, i + 2, e - 2), ctx, depth)
       IN IF ~r.ok THEN r
          ELSE OkStr(SubSeq(value, 1, i - 1) \o r.val \o SubSeq(value, e + 1, Len(value)))

resolveTokens(value, ctx, depth) == ReplaceFrom(value, 1, ctx, depth)

\* IsAllCaps with the name upper-cased before the test instead of compared
IsAllCapsCaseFolded(name) == ALL_CAPS_REGEX(toUpperCase(name))

\* name === name.toUpperCase() && /^[A-Z_][A-Z0-9_]*$/.test(name)
IsAllCaps(name) == name = toUpperCase(name) /\ ALL_CAPS_REGEX(name)

resolveToken(token, ctx, depth) ==
  IF depth > MaxCallDepth THEN RangeError
  ELSE LET name == trim(token) IN
       IF InBUILTINS(name) THEN CallBUILTIN(name, ctx.seed)
       ELSE IF HasProperty(ctx.vars, name) THEN OkStr(ctx.vars[name])
       ELSE IF IsAllCaps(name) /\ HasProperty(ctx.env, name)
            THEN OkStr(ctx.env[name])
       ELSE IF HasDefault(ctx.declaredVariables, name)
            THEN resolveTokens(Get(ctx.declaredVariables, name).default, ctx, depth + 1)
       ELSE MissingVariableError(<<name>>)

-----------------------------------------------------------------------------
(* JSON-like trees: string, number, boolean, null, array, object.           *)
(* An object is the sequence of its <<key, value>> entries in insertion     *)
(* order, with pairwise different keys.                                     *)

Str(s) == [t |-> "str", s |-> s]
Num(n) == [t |-> "num", n |-> n]
Bool(b) == [t |-> "bool", b |-> b]
Null == [t |-> "null"]
Arr(items) == [t |-> "arr", items |-> items]
Obj(entries) == [t |-> "obj", entries |-> entries]

OkNode(n) == [ok |-> TRUE, val |-> n, err |-> NoErr]

\* Object.fromEntries(pairs): a later pair with a key already present
\* overwrites that entry's value and keeps its position.
RECURSIVE FromEntriesFrom(_, _, _)
FromEntriesFrom(pairs, i, acc) ==
  IF i > Len(pairs) THEN acc
  ELSE LET k == pairs[i][1]
           v == pairs[i][2]
       IN IF k \in Keys(acc)
          THEN LET at == CHOOSE j \in DOMAIN acc : acc[j][1] = k IN
               FromEntriesFrom(pairs, i + 1, [acc EXCEPT ![at] = <<k, v>>])
          ELSE FromEntriesFrom(pairs, i + 1, Append(acc, <<k, v>>))

fromEntries(pairs) == FromEntriesFrom(pairs, 1, << >>)

-----------------------------------------------------------------------------
(* Interpolation engine *)

RECURSIVE walkAndInterpolate(_, _), WalkItems(_, _, _), WalkEntries(_, _, _)

\* node.map(item => walkAndInterpolate(item, ctx)), from index i
WalkItems(items, i, ctx) ==
  IF i > Len(items) THEN OkNode(<< >>)
  ELSE LET r == walkAndInterpolate(items[i], ctx) IN
       IF ~r.ok THEN r
       ELSE LET rest == WalkItems(items, i + 1, ctx) IN
            IF rest.ok THEN OkNode(<<r.val>> \o rest.val) ELSE rest

\* WalkEntries with the keys copied instead of resolved
WalkEntriesKeysCopied(entries, i, ctx) ==
  IF i > Len(entries) THEN OkNode(<< >>)
  ELSE LET v == walkAndInterpolate(entries[i][2], ctx) IN
       IF ~v.ok THEN v
       ELSE LET rest == WalkEntries(entries, i + 1, ctx) IN
            IF rest.ok THEN OkNode(<< <<entries[i][1], v.val>> >> \o rest.val) ELSE rest

\* Object.entries(node).map(([k, v]) => [resolveTokens(k, ctx),
\* walkAndInterpolate(v, ctx)]), from index i
WalkEntries(entries, i, ctx) ==
  IF i > Len(entries) THEN OkNode(<< >>)
  ELSE LET k == resolveTokens(entries[i][1], ctx, 0) IN
       IF ~k.ok THEN k
       ELSE LET v == walkAndInterpolate(entries[i][2], ctx) IN
            IF ~v.ok THEN v
            ELSE LET rest == WalkEntries(entries, i + 1, ctx) IN
                 IF rest.ok THEN OkNode(<< <<k.val, v.val>> >> \o rest.val) ELSE rest

walkAndInterpolate(node, ctx) ==
  IF node.t = "str"
  THEN LET r == resolveTokens(node.s, ctx, 0) IN
       IF r.ok THEN OkNode(Str(r.val)) ELSE r
  ELSE IF node.t = "arr"
  THEN LET r == WalkItems(node.items, 1, ctx) IN
       IF r.ok THEN OkNode(Arr(r.val)) ELSE r
  ELSE IF node.t = "obj"
  THEN LET r == WalkEntries(node.entries, 1, ctx) IN
       IF r.ok THEN OkNode(Obj(fromEntries(r.val))) ELSE r
  ELSE OkNode(node)

\* The context interpolate builds.  seed stands for the clock and the random
\* source the built-ins read.
InterpolationContext(tpl, vs, ev, sd) ==
  [vars |-> vs, env |-> ev, templateName |-> tpl.name,
   declaredVariables |-> tpl.variables, seed |-> sd]

interpolate(tpl, vs, ev, sd) ==
  LET ctx == InterpolationContext(tpl, vs, ev, sd)
      interpolatedDestination == walkAndInterpolate(tpl.destination, ctx)
  IN IF ~interpolatedDestination.ok THEN interpolatedDestination
     ELSE LET interpolatedMessage == walkAndInterpolate(tpl.message, ctx) IN
          IF ~interpolatedMessage.ok THEN interpolatedMessage
          ELSE OkNode([version |-> tpl.version, name |-> tpl.name,
                       variables |-> tpl.variables,
                       destination |-> interpolatedDestination.val,
                       message |-> interpolatedMessage.val,
                       _resolved |-> TRUE])

\* n.matchAll(TOKEN_REGEX), the trimmed capture of every match from index i
RECURSIVE MatchAllFrom(_, _)
MatchAllFrom(s, i) ==
  IF i > Len(s) THEN {}
  ELSE LET e == TOKEN_REGEX(s, i) IN
       IF e = 0 THEN MatchAllFrom(s, i + 1)
       ELSE {trim(SubSeq(s, i + 2, e - 2))} \cup MatchAllFrom(s, e + 1)

\* the set of token names of a tree (the code returns the set as an array)
RECURSIVE collectTokens(_)
collectTokens(node) ==
  IF node.t = "str" THEN MatchAllFrom(node.s, 1)
  ELSE IF node.t = "arr"
  THEN UNION { collectTokens(node.items[i]) : i \in DOMAIN node.items }
  ELSE IF node.t = "obj"
  THEN UNION { MatchAllFrom(node.entries[i][1], 1) \cup collectTokens(node.entries[i][2]) :
               i \in DOMAIN node.entries }
  ELSE {}

-----------------------------------------------------------------------------
(* Required-variable check *)

\* isRequired with the default forgotten
isRequiredDefaultIgnored(decl) == decl.required # "false"

\* decl.required !== false && decl.default === undefined
isRequired(decl) == decl.required # "false" /\ ~decl.hasDefault

\* the keys pushed to `missing`, in Object.entries order, from index i
RECURSIVE MissingFrom(_, _, _)
MissingFrom(declared, i, vs) ==
  IF i > Len(declared) THEN << >>
  ELSE LET key == declared[i][1]
           decl == declared[i][2]
       IN (IF isRequired(decl) /\ ~HasProperty(vs, key) THEN <<key>> ELSE << >>)
          \o MissingFrom(declared, i + 1, vs)

\* a check that finds nothing missing
validateVariablesNothingMissing(tpl, vs) == OkStr(<< >>)

validateVariables(tpl, vs) ==
  LET missing == MissingFrom(tpl.variables, 1, vs) IN
  IF Len(missing) > 0 THEN MissingVariableError(missing) ELSE OkStr(<< >>)

-----------------------------------------------------------------------------
(* Words of the template, the Slack DSL and the Slack payload *)

S_blocks == <<"b","l","o","c","k","s">>
S_text == <<"t","e","x","t">>
S_channel == <<"c","h","a","n","n","e","l">>
S_service == <<"s","e","r","v","i","c","e">>
S_slack == <<"s","l","a","c","k">>
S_type == <<"t","y","p","e">>
S_raw == <<"r","a","w">>
S_header == <<"h","e","a","d","e","r">>
S_divider == <<"d","i","v","i","d","e","r">>
S_section == <<"s","e","c","t","i","o","n">>
S_context == <<"c","o","n","t","e","x","t">>
S_actions == <<"a","c","t","i","o","n","s">>
S_image == <<"i","m","a","g","e">>
S_video == <<"v","i","d","e","o">>
S_markdown == <<"m","a","r","k","d","o","w","n">>
S_file == <<"f","i","l","e">>
S_table == <<"t","a","b","l","e">>
S_button == <<"b","u","t","t","o","n">>
S_overflow == <<"o","v","e","r","f","l","o","w">>
S_datepicker == <<"d","a","t","e","p","i","c","k","e","r">>
S_timepicker == <<"t","i","m","e","p","i","c","k","e","r">>
S_select == <<"s","e","l","e","c","t">>
S_multi_select == <<"m","u","l","t","i","_","s","e","l","e","c","t">>
S_static_select == <<"s","t","a","t","i","c","_","s","e","l","e","c","t">>
S_multi_static_select == <<"m","u","l","t","i","_","s","t","a","t","i","c","_","s","e","l","e","c","t">>
S_plain_text == <<"p","l","a","i","n","_","t","e","x","t">>
S_mrkdwn == <<"m","r","k","d","w","n">>
S_emoji == <<"e","m","o","j","i">>
S_title == <<"t","i","t","l","e">>
S_confirm == <<"c","o","n","f","i","r","m">>
S_deny == <<"d","e","n","y">>
S_style == <<"s","t","y","l","e">>
S_value == <<"v","a","l","u","e">>
S_url == <<"u","r","l">>
S_description == <<"d","e","s","c","r","i","p","t","i","o","n">>
S_action_id == <<"a","c","t","i","o","n","_","i","d">>
S_accessibility_label == <<"a","c","c","e","s","s","i","b","i","l","i","t","y","_","l","a","b","e","l">>
S_options == <<"o","p","t","i","o","n","s">>
S_placeholder == <<"p","l","a","c","e","h","o","l","d","e","r">>
S_initial_date == <<"i","n","i","t","i","a","l","_","d","a","t","e">>
S_initial_time == <<"i","n","i","t","i","a","l","_","t","i","m","e">>
S_timezone == <<"t","i","m","e","z","o","n","e">>
S_block_id == <<"b","l","o","c","k","_","i","d">>
S_fields == <<"f","i","e","l","d","s">>
S_accessory == <<"a","c","c","e","s","s","o","r","y">>
S_alt_text == <<"a","l","t","_","t","e","x","t">>
S_alt == <<"a","l","t">>
S_image_url == <<"i","m","a","g","e","_","u","r","l">>
S_slack_file == <<"s","l","a","c","k","_","f","i","l","e">>
S_elements == <<"e","l","e","m","e","n","t","s">>
S_video_url == <<"v","i","d","e","o","_","u","r","l">>
S_thumbnail_url == <<"t","h","u","m","b","n","a","i","l","_","u","r","l">>
S_thumbnail == <<"t","h","u","m","b","n","a","i","l">>
S_provider == <<"p","r","o","v","i","d","e","r">>
S_provider_name == <<"p","r","o","v","i","d","e","r","_","n","a","m","e">>
S_title_url == <<"t","i","t","l","e","_","u","r","l">>
S_external_id == <<"e","x","t","e","r","n","a","l","_","i","d">>
S_source == <<"s","o","u","r","c","e">>
S_remote == <<"r","e","m","o","t","e">>
S_rows == <<"r","o","w","s">>
S_columns == <<"c","o","l","u","m","n","s">>
S_column_settings == <<"c","o","l","u","m","n","_","s","e","t","t","i","n","g","s">>
S_thread_ts == <<"t","h","r","e","a","d","_","t","s">>
S_reply_broadcast == <<"r","e","p","l","y","_","b","r","o","a","d","c","a","s","t">>
S_unfurl_links == <<"u","n","f","u","r","l","_","l","i","n","k","s">>
S_unfurl_media == <<"u","n","f","u","r","l","_","m","e","d","i","a">>
S_files == <<"f","i","l","e","s">>
S_path == <<"p","a","t","h">>
S_filename == <<"f","i","l","e","n","a","m","e">>
S_botToken == <<"b","o","t","T","o","k","e","n">>
S_true == <<"t","r","u","e">>
S_false == <<"f","a","l","s","e">>
S_null == <<"n","u","l","l">>
S_undefined == <<"u","n","d","e","f","i","n","e","d">>
S_foo == <<"f","o","o">>
S_label == <<"l","a","b","e","l">>
S_ok == <<"o","k">>
S_error == <<"e","r","r","o","r">>
S_upload_url == <<"u","p","l","o","a","d","_","u","r","l">>
S_file_id == <<"f","i","l","e","_","i","d">>
S_ts == <<"t","s">>
S_id == <<"i","d">>
S_channel_id == <<"c","h","a","n","n","e","l","_","i","d">>
S_initial_comment == <<"i","n","i","t","i","a","l","_","c","o","m","m","e","n","t">>
S_length == <<"l","e","n","g","t","h">>

-----------------------------------------------------------------------------
(* JavaScript values as the Slack adapter reads them *)

\* the value of a property that is not there
Undefined == [t |-> "undef"]

\* own property k of a plain object
Own(node, k) == node.t = "obj" /\ k \in Keys(node.entries)

\* node.k for a node that is neither null nor undefined
Prop(node, k) == IF Own(node, k) THEN Get(node.entries, k) ELSE Undefined

\* null or undefined: reading a property of it throws a TypeError
Nullish(node) == node.t \in {"null", "undef"}

\* if (x)
Truthy(node) ==
  CASE node.t = "str" -> node.s # << >>
    [] node.t = "num" -> node.n # 0
    [] node.t = "bool" -> node.b
    [] node.t \in {"null", "undef"} -> FALSE
    [] OTHER -> TRUE

\* typeof x === 'object' && x !== null; `k in x` throws a TypeError otherwise
IsObject(node) == node.t \in {"obj", "arr"}

\* `k in node` for an object or an array (k is never an index or `length`)
KeyIn(k, node) == Own(node, k) \/ k \in ObjectPrototype

DigitChars == <<"0","1","2","3","4","5","6","7","8","9">>

RECURSIVE NumToString(_)
NumToString(n) ==
  IF n < 10 THEN <<DigitChars[n + 1]>>
  ELSE NumToString(n \div 10) \o <<DigitChars[(n % 10) + 1]>>

\* String(value)
RECURSIVE StringOf(_), JoinFrom(_, _)
JoinFrom(items, i) ==
  IF i > Len(items) THEN << >>
  ELSE (IF i > 1 THEN <<",">> ELSE << >>)
       \o (IF Nullish(items[i]) THEN << >> ELSE StringOf(items[i]))
       \o JoinFrom(items, i + 1)

StringOf(node) ==
  CASE node.t = "str" -> node.s
    [] node.t = "num" -> NumToString(node.n)
    [] node.t = "bool" -> (IF node.b THEN S_true ELSE S_false)
    [] node.t = "null" -> S_null
    [] node.t = "undef" -> S_undefined
    [] node.t = "arr" -> JoinFrom(node.items, 1)
    [] OTHER -> ObjectObject

\* throw new Error(`Unknown block: ...`)
UnknownBlock == Throw("Error: Unknown block", << >>)
\* throw new Error(`Unknown element type: ...`)
UnknownElement == Throw("Error: Unknown element type", << >>)
\* throw new AdapterValidationError(serviceName, detail)
AdapterValidationError == Throw("AdapterValidationError", << >>)

\* items.map(f) given the outcome of f on every item: the array of the
\* returned values, or what the first throwing call threw
MapResults(rs) ==
  IF \A i \in DOMAIN rs : rs[i].ok
  THEN OkNode(Arr([i \in DOMAIN rs |-> rs[i].val]))
  ELSE rs[CHOOSE i \in DOMAIN rs : ~rs[i].ok /\ \A j \in 1..(i - 1) : rs[j].ok]

\* if (src.from) result.to = src.from
CopyIfTruthy(entries, src, from, to) ==
  IF Truthy(Prop(src, from)) THEN Append(entries, <<to, Prop(src, from)>>) ELSE entries

-----------------------------------------------------------------------------
(* Slack DSL: detection and composition helpers *)

SHORTHAND_BLOCK_KEYS ==
  { S_header, S_divider, S_section, S_context, S_actions,
    S_image, S_video, S_markdown, S_file, S_table, S_raw }

\* detection that asks only for a non-empty blocks array
isDSLMessageAnyBlocks(message) ==
  Prop(message, S_blocks).t = "arr" /\ Len(Prop(message, S_blocks).items) > 0

\* detection that looks at the first block only
isDSLMessageFirstBlock(message) ==
  LET blocks == Prop(message, S_blocks) IN
  /\ blocks.t = "arr"
  /\ Len(blocks.items) > 0
  /\ blocks.items[1].t = "obj"
  /\ Keys(blocks.items[1].entries) \cap SHORTHAND_BLOCK_KEYS # {}

isDSLMessage(message) ==
  LET blocks == Prop(message, S_blocks) IN
  IF blocks.t # "arr" \/ Len(blocks.items) = 0 THEN FALSE
  ELSE \E i \in DOMAIN blocks.items :
         LET block == blocks.items[i] IN
         /\ IsObject(block)
         /\ block.t = "obj"
         /\ Keys(block.entries) \cap SHORTHAND_BLOCK_KEYS # {}

plainText(text) ==
  Obj(<< <<S_type, Str(S_plain_text)>>, <<S_text, text>>, <<S_emoji, Bool(TRUE)>> >>)

mrkdwn(text) == Obj(<< <<S_type, Str(S_mrkdwn)>>, <<S_text, text>> >>)

\* if (src.from) result.to = plainText(src.from)
PlainTextIfTruthy(entries, src, from, to) ==
  IF Truthy(Prop(src, from)) THEN Append(entries, <<to, plainText(Prop(src, from))>>)
  ELSE entries

compileConfirm(confirm) ==
  Obj(CopyIfTruthy(
        << <<S_title, plainText(Prop(confirm, S_title))>>,
           <<S_text, plainText(Prop(confirm, S_text))>>,
           <<S_confirm, plainText(Prop(confirm, S_confirm))>>,
           <<S_deny, plainText(Prop(confirm, S_deny))>> >>,
        confirm, S_style, S_style))

compileOption(opt) ==
  IF Nullish(opt) THEN TypeError
  ELSE LET value == IF Nullish(Prop(opt, S_value)) THEN Prop(opt, S_text)
                    ELSE Prop(opt, S_value)
           e1 == << <<S_text, plainText(Prop(opt, S_text))>>, <<S_value, value>> >>
           e2 == CopyIfTruthy(e1, opt, S_url, S_url)
       IN OkNode(Obj(PlainTextIfTruthy(e2, opt, S_description, S_description)))

\* el.options.map(compileOption)
CompileOptions(el) ==
  LET options == Prop(el, S_options) IN
  IF options.t # "arr" THEN TypeError
  ELSE MapResults([i \in DOMAIN options.items |-> compileOption(options.items[i])])

-----------------------------------------------------------------------------
(* Slack DSL: element compilers *)

compileButton(btn) ==
  IF Nullish(btn) THEN TypeError
  ELSE LET e1 == << <<S_type, Str(S_button)>>, <<S_text, plainText(Prop(btn, S_text))>> >>
           e2 == CopyIfTruthy(e1, btn, S_url, S_url)
           e3 == CopyIfTruthy(e2, btn, S_action_id, S_action_id)
           e4 == CopyIfTruthy(e3, btn, S_value, S_value)
           e5 == CopyIfTruthy(e4, btn, S_style, S_style)
           e6 == IF Truthy(Prop(btn, S_confirm))
                 THEN Append(e5, <<S_confirm, compileConfirm(Prop(btn, S_confirm))>>)
                 ELSE e5
       IN OkNode(Obj(CopyIfTruthy(e6, btn, S_accessibility_label, S_accessibility_label)))

compileOverflow(el) ==
  IF Nullish(el) THEN TypeError
  ELSE LET options == CompileOptions(el) IN
       IF ~options.ok THEN options
       ELSE OkNode(Obj(CopyIfTruthy(
              << <<S_type, Str(S_overflow)>>, <<S_options, options.val>> >>,
              el, S_action_id, S_action_id)))

compileDatepicker(el) ==
  IF Nullish(el) THEN TypeError
  ELSE LET e1 == CopyIfTruthy(<< <<S_type, Str(S_datepicker)>> >>, el, S_action_id, S_action_id)
           e2 == PlainTextIfTruthy(e1, el, S_placeholder, S_placeholder)
       IN OkNode(Obj(CopyIfTruthy(e2, el, S_initial_date, S_initial_date)))

compileTimepicker(el) ==
  IF Nullish(el) THEN TypeError
  ELSE LET e1 == CopyIfTruthy(<< <<S_type, Str(S_timepicker)>> >>, el, S_action_id, S_action_id)
           e2 == PlainTextIfTruthy(e1, el, S_placeholder, S_placeholder)
           e3 == CopyIfTruthy(e2, el, S_initial_time, S_initial_time)
       IN OkNode(Obj(CopyIfTruthy(e3, el, S_timezone, S_timezone)))

\* compileSelect and compileMultiSelect differ in the type they emit
CompileSelectAs(el, type) ==
  IF Nullish(el) THEN TypeError
  ELSE LET options == CompileOptions(el) IN
       IF ~options.ok THEN options
       ELSE LET e1 == CopyIfTruthy(<< <<S_type, Str(type)>>, <<S_options, options.val>> >>,
                                   el, S_action_id, S_action_id)
            IN OkNode(Obj(PlainTextIfTruthy(e1, el, S_placeholder, S_placeholder)))

compileSelect(el) == CompileSelectAs(el, S_static_select)

compileMultiSelect(el) == CompileSelectAs(el, S_multi_static_select)

\* the escape hatch with the fragment marked as raw
RawFragmentMarked(x) == Obj(<< <<S_raw, Bool(TRUE)>> >> \o Prop(x, S_raw).entries)

\* return el.raw / return block.raw
RawFragment(x) == Prop(x, S_raw)

compileElement(el) ==
  IF ~IsObject(el) THEN TypeError
  ELSE IF KeyIn(S_raw, el) THEN OkNode(RawFragment(el))
  ELSE IF KeyIn(S_button, el) THEN compileButton(Prop(el, S_button))
  ELSE IF KeyIn(S_overflow, el) THEN compileOverflow(Prop(el, S_overflow))
  ELSE IF KeyIn(S_datepicker, el) THEN compileDatepicker(Prop(el, S_datepicker))
  ELSE IF KeyIn(S_timepicker, el) THEN compileTimepicker(Prop(el, S_timepicker))
  ELSE IF KeyIn(S_select, el) THEN compileSelect(Prop(el, S_select))
  ELSE IF KeyIn(S_multi_select, el) THEN compileMultiSelect(Prop(el, S_multi_select))
  ELSE UnknownElement

-----------------------------------------------------------------------------
(* Slack DSL: block compilers *)

compileHeader(value) ==
  IF value.t = "str"
  THEN OkNode(Obj(<< <<S_type, Str(S_header)>>, <<S_text, plainText(value)>> >>))
  ELSE IF Nullish(value) THEN TypeError
  ELSE OkNode(Obj(CopyIfTruthy(
         << <<S_type, Str(S_header)>>, <<S_text, plainText(Prop(value, S_text))>> >>,
         value, S_block_id, S_block_id)))

\* a divider left in its shorthand form
compileDividerAsGiven(value) == OkNode(Obj(<< <<S_divider, value>> >>))

compileDivider(value) ==
  IF IsObject(value) /\ KeyIn(S_block_id, value)
  THEN OkNode(Obj(<< <<S_type, Str(S_divider)>>, <<S_block_id, Prop(value, S_block_id)>> >>))
  ELSE OkNode(Obj(<< <<S_type, Str(S_divider)>> >>))

\* v.fields.map(mrkdwn)
CompileFields(fields) ==
  IF fields.t # "arr" THEN TypeError
  ELSE OkNode(Arr([i \in DOMAIN fields.items |-> mrkdwn(fields.items[i])]))

compileSection(value) ==
  IF Nullish(value) THEN TypeError
  ELSE LET text == Prop(value, S_text)
           fields == IF Truthy(Prop(value, S_fields))
                     THEN CompileFields(Prop(value, S_fields))
                     ELSE OkNode(Undefined)
           accessory == IF Truthy(Prop(value, S_accessory))
                        THEN compileElement(Prop(value, S_accessory))
                        ELSE OkNode(Undefined)
           e1 == << <<S_type, Str(S_section)>> >>
           e2 == IF Truthy(text) THEN Append(e1, <<S_text, mrkdwn(text)>>) ELSE e1
           e3 == IF Truthy(Prop(value, S_fields))
                 THEN Append(e2, <<S_fields, fields.val>>) ELSE e2
           e4 == CopyIfTruthy(e3, value, S_block_id, S_block_id)
           e5 == IF Truthy(Prop(value, S_accessory))
                 THEN Append(e4, <<S_accessory, accessory.val>>) ELSE e4
       IN IF ~fields.ok THEN fields
          ELSE IF ~accessory.ok THEN accessory
          ELSE OkNode(Obj(e5))

\* { url: img.slack_file }
SlackFile(handle) == Obj(<< <<S_url, handle>> >>)

\* the image source fields compileContextItem and compileImage add
ImageSources(entries, img) ==
  LET e1 == CopyIfTruthy(entries, img, S_url, S_image_url) IN
  IF Truthy(Prop(img, S_slack_file))
  THEN Append(e1, <<S_slack_file, SlackFile(Prop(img, S_slack_file))>>)
  ELSE e1

compileContextItem(item) ==
  IF item.t = "str" THEN OkNode(mrkdwn(item))
  ELSE IF Nullish(item) \/ Nullish(Prop(item, S_image)) THEN TypeError
  ELSE LET img == Prop(item, S_image) IN
       OkNode(Obj(ImageSources(
         << <<S_type, Str(S_image)>>, <<S_alt_text, Prop(img, S_alt)>> >>, img)))

compileContext(value) ==
  IF value.t # "arr" /\ Nullish(value) THEN TypeError
  ELSE LET items == IF value.t = "arr" THEN value
                    ELSE IF Nullish(Prop(value, S_elements)) THEN Arr(<< >>)
                    ELSE Prop(value, S_elements)
           blockId == IF value.t = "arr" THEN Undefined ELSE Prop(value, S_block_id)
           elements == IF items.t # "arr" THEN TypeError
                       ELSE MapResults([i \in DOMAIN items.items |->
                                          compileContextItem(items.items[i])])
       IN IF ~elements.ok THEN elements
          ELSE OkNode(Obj(
                 << <<S_type, Str(S_context)>>, <<S_elements, elements.val>> >>
                 \o (IF Truthy(blockId) THEN << <<S_block_id, blockId>> >> ELSE << >>)))

compileActions(value) ==
  IF Nullish(value) THEN TypeError
  ELSE LET items == Prop(value, S_elements)
           elements == IF items.t # "arr" THEN TypeError
                       ELSE MapResults([i \in DOMAIN items.items |->
                                          compileElement(items.items[i])])
       IN IF ~elements.ok THEN elements
          ELSE OkNode(Obj(CopyIfTruthy(
                 << <<S_type, Str(S_actions)>>, <<S_elements, elements.val>> >>,
                 value, S_block_id, S_block_id)))

compileImage(value) ==
  IF Nullish(value) THEN TypeError
  ELSE LET e1 == ImageSources(
                   << <<S_type, Str(S_image)>>, <<S_alt_text, Prop(value, S_alt)>> >>, value)
           e2 == PlainTextIfTruthy(e1, value, S_title, S_title)
       IN OkNode(Obj(CopyIfTruthy(e2, value, S_block_id, S_block_id)))

compileVideo(value) ==
  IF Nullish(value) THEN TypeError
  ELSE LET e1 == << <<S_type, Str(S_video)>>,
                    <<S_video_url, Prop(value, S_url)>>,
                    <<S_thumbnail_url, Prop(value, S_thumbnail)>>,
                    <<S_alt_text, Prop(value, S_alt)>>,
                    <<S_title, plainText(Prop(value, S_title))>> >>
           e2 == PlainTextIfTruthy(e1, value, S_description, S_description)
           e3 == CopyIfTruthy(e2, value, S_provider, S_provider_name)
           e4 == CopyIfTruthy(e3, value, S_title_url, S_title_url)
       IN OkNode(Obj(CopyIfTruthy(e4, value, S_block_id, S_block_id)))

compileMarkdown(value) ==
  OkNode(Obj(<< <<S_type, Str(S_markdown)>>, <<S_text, Str(StringOf(value))>> >>))

compileFile(value) ==
  IF Nullish(value) THEN TypeError
  ELSE OkNode(Obj(CopyIfTruthy(
         << <<S_type, Str(S_file)>>,
            <<S_external_id, Prop(value, S_external_id)>>,
            <<S_source, Str(S_remote)>> >>,
         value, S_block_id, S_block_id)))

compileTable(value) ==
  IF Nullish(value) THEN TypeError
  ELSE LET e1 == << <<S_type, Str(S_table)>>, <<S_rows, Prop(value, S_rows)>> >>
           e2 == CopyIfTruthy(e1, value, S_columns, S_column_settings)
       IN OkNode(Obj(CopyIfTruthy(e2, value, S_block_id, S_block_id)))

\* an unrecognized block handed on as it is
UnrecognizedBlockPassed(block) == OkNode(block)

\* throw new Error(`Unknown block: ${JSON.stringify(block)}`)
UnrecognizedBlock(block) == UnknownBlock

compileBlock(block) ==
  IF ~IsObject(block) THEN TypeError
  ELSE IF KeyIn(S_type, block) THEN OkNode(block)
  ELSE IF KeyIn(S_raw, block) THEN OkNode(RawFragment(block))
  ELSE IF KeyIn(S_header, block) THEN compileHeader(Prop(block, S_header))
  ELSE IF KeyIn(S_divider, block) THEN compileDivider(Prop(block, S_divider))
  ELSE IF KeyIn(S_section, block) THEN compileSection(Prop(block, S_section))
  ELSE IF KeyIn(S_context, block) THEN compileContext(Prop(block, S_context))
  ELSE IF KeyIn(S_actions, block) THEN compileActions(Prop(block, S_actions))
  ELSE IF KeyIn(S_image, block) THEN compileImage(Prop(block, S_image))
  ELSE IF KeyIn(S_video, block) THEN compileVideo(Prop(block, S_video))
  ELSE IF KeyIn(S_markdown, block) THEN compileMarkdown(Prop(block, S_markdown))
  ELSE IF KeyIn(S_file, block) THEN compileFile(Prop(block, S_file))
  ELSE IF KeyIn(S_table, block) THEN compileTable(Prop(block, S_table))
  ELSE UnrecognizedBlock(block)

-----------------------------------------------------------------------------
(* Slack DSL and adapter: public functions *)

\* if (message.k !== undefined) result.k = message.k
CopyIfDefined(entries, src, k) ==
  IF Prop(src, k).t # "undef" THEN Append(entries, <<k, Prop(src, k)>>) ELSE entries

compileDSL(message) ==
  LET e1 == CopyIfTruthy(<< >>, message, S_text, S_text)
      e2 == CopyIfTruthy(e1, message, S_thread_ts, S_thread_ts)
      e3 == CopyIfDefined(e2, message, S_reply_broadcast)
      e4 == CopyIfDefined(e3, message, S_unfurl_links)
      e5 == CopyIfDefined(e4, message, S_unfurl_media)
      blocks == Prop(message, S_blocks)
      compiled == IF blocks.t # "arr" THEN TypeError
                  ELSE MapResults([i \in DOMAIN blocks.items |-> compileBlock(blocks.items[i])])
  IN IF ~Truthy(blocks) THEN OkNode(Obj(e5))
     ELSE IF ~compiled.ok THEN compiled
     ELSE OkNode(Obj(Append(e5, <<S_blocks, compiled.val>>)))

\* SlackAdapter.compile
compile(message) ==
  IF isDSLMessage(message) THEN compileDSL(message) ELSE OkNode(message)

\* validate without its second test
validateArrayCheckOmitted(message) ==
  IF ~Truthy(Prop(message, S_blocks)) /\ ~Truthy(Prop(message, S_text))
  THEN AdapterValidationError
  ELSE OkNode(Undefined)

\* SlackAdapter.validate
validate(message) ==
  IF ~Truthy(Prop(message, S_blocks)) /\ ~Truthy(Prop(message, S_text))
  THEN AdapterValidationError
  ELSE IF Prop(message, S_blocks).t # "undef" /\ Prop(message, S_blocks).t # "arr"
  THEN AdapterValidationError
  ELSE OkNode(Undefined)

-----------------------------------------------------------------------------
(* Inputs: templates, caller variables, environments *)

\* all objects with at most n own keys from keys and values from values
Objects(keys, values, n) ==
  UNION { [K -> values] : K \in { K \in SUBSET keys : Cardinality(K) <= n } }

Decl(hasDefault, default, required) ==
  [hasDefault |-> hasDefault, default |-> default, required |-> required]

D_req == Decl(FALSE, << >>, "true")
D_opt == Decl(FALSE, << >>, "false")
D_plain == Decl(FALSE, << >>, "undefined")
D_def == Decl(TRUE, V_d, "undefined")
D_reqdef == Decl(TRUE, V_d, "true")
D_toA == Decl(TRUE, Tok(N_a), "undefined")
D_toB == Decl(TRUE, Tok(N_b), "undefined")
D_toUSER == Decl(TRUE, Tok(N_USER), "undefined")
D_reqtoB == Decl(TRUE, Tok(N_b), "true")


Template(variables, destination, message) ==
  [version |-> "1", name |-> "T", variables |-> variables,
   destination |-> destination, message |-> message]

Destination(channel) ==
  Obj(<< <<S_service, Str(S_slack)>>, <<S_channel, Str(channel)>> >>)

\* Resolver and validator scenarios: many contexts, one plain template.
CtxVarKeys == { N_a, N_USER, N_now, N_empty, N_toString }
CtxVarValues == { V_v, << >> }
CtxEnvKeys == { N_USER, N_User }
DeclKeys == <<N_a, N_USER, N_toString>>
DeclVariants == { D_req, D_opt, D_plain, D_def, D_reqdef, D_toUSER }

\* declared-variable objects with at most n entries, keys in DeclKeys order
DeclaredObjects(n) ==
  UNION { { [i \in 1..Len(ix) |-> <<DeclKeys[ix[i]], ds[i]>>] :
              ds \in [1..Len(ix) -> DeclVariants] } :
          ix \in { ix \in UNION { [1..m -> DOMAIN DeclKeys] : m \in 0..n } :
                     \A i, j \in DOMAIN ix : i < j => ix[i] < ix[j] } }

CtxTemplates ==
  { Template(d, Destination(<<"#","c">>), Obj(<< <<S_text, Str(Tok(N_a))>> >>)) :
      d \in DeclaredObjects(MaxDecl) }

\* Tree scenarios: many message and destination trees, fewer contexts.
TreeVarKeys == { N_a, N_b, N_empty }
TreeVarValues == { V_v, << >>, Tok(N_b) }
TreeEnvKeys == { N_USER }
TreeDeclared ==
  { << >>,
    << <<N_a, D_toB>>, <<N_b, D_toA>> >>,
    << <<N_a, D_toA>> >>,
    << <<N_a, D_reqdef>> >>,
    << <<N_a, D_reqtoB>>, <<N_b, D_req>> >>,
    << <<N_empty, D_def>> >> }

ValueStrings ==
  { V_v,
    Tok(N_a),
    Tok(N_a) \o <<" ">> \o Tok(N_b),
    <<"x">> \o Tok(<<" ">>) \o <<"y">>,
    <<"{","{","x","}">> \o Tok(N_a) \o <<"}">>,
    Tok(<<" ">> \o N_USER \o <<" ">>) }
KeyStrings == { V_v, Tok(N_a), Tok(N_b), <<"k">> \o Tok(N_a) }

Messages ==
  { Obj(<< <<S_text, Str(s)>> >>) : s \in ValueStrings }
  \cup { Obj(<< <<kk[1], Str(V_d)>>, <<kk[2], Num(2)>> >>) :
           kk \in { kk \in KeyStrings \X KeyStrings : kk[1] # kk[2] } }
  \cup { Obj(<< <<S_blocks,
                  Arr(<< Obj(<< <<k, Str(s)>> >>), Num(42), Bool(TRUE), Null >>)>> >>) :
           k \in { Tok(N_a), S_text }, s \in { Tok(N_b), V_v } }

Destinations == { Destination(<<"#","c">>), Destination(Tok(N_USER)) }

TreeTemplates ==
  { Template(d, dest, m) : d \in TreeDeclared, dest \in Destinations, m \in Messages }

Seeds == { 1, 2 }

\* the names the resolver is asked for
TokenNames == { N_now, N_a, N_b, N_USER, N_User, N_toString, <<" ">> }

-----------------------------------------------------------------------------
(* Inputs: messages given to the Slack adapter *)

\* Blocks of a message in the compile scenarios.
MaxBlocks == 2

\* an object with the one entry k: v
One(k, v) == Obj(<< <<k, v>> >>)

T_h == Str(<<"h">>)
T_b == Str(<<"b">>)
T_u == Str(<<"u">>)
T_empty == Str(<< >>)

\* native fragments, as hand-written Block Kit
NativeSection == Obj(<< <<S_type, Str(S_section)>>, <<S_text, mrkdwn(T_h)>> >>)
NativeButton == Obj(<< <<S_type, Str(S_button)>>, <<S_text, plainText(T_b)>> >>)
\* a fragment that carries no type
Untyped == Obj(<< <<S_foo, Num(1)>> >>)
\* a native block that also carries a shorthand key
NativeWithShorthand == Obj(<< <<S_type, Str(S_section)>>, <<S_header, T_h>> >>)
\* a native element that also carries a shorthand key
NativeButtonWithShorthand ==
  Obj(<< <<S_type, Str(S_button)>>, <<S_text, plainText(T_b)>>, <<S_button, One(S_text, T_u)>> >>)

Fragments == { NativeSection, NativeButton, Untyped, Obj(<< >>) }

Option(text) == One(S_text, text)

Confirm ==
  Obj(<< <<S_title, T_h>>, <<S_text, T_b>>, <<S_confirm, T_u>>, <<S_deny, T_h>> >>)

\* elements of an actions block, or accessories of a section
Elements ==
  { One(S_raw, x) : x \in Fragments }
  \cup { One(S_button, One(S_text, T_b)),
         One(S_button, Obj(<< <<S_text, T_b>>, <<S_url, T_u>>, <<S_value, T_empty>>,
                              <<S_confirm, Confirm>> >>)),
         One(S_overflow, Obj(<< <<S_options, Arr(<< Option(T_h),
                 Obj(<< <<S_text, T_h>>, <<S_value, T_b>>, <<S_description, T_u>> >>) >>)>>,
                                <<S_action_id, T_b>> >>)),
         One(S_overflow, Obj(<< >>)),
         One(S_datepicker, Obj(<< <<S_placeholder, T_h>>, <<S_initial_date, T_b>> >>)),
         One(S_timepicker, Obj(<< <<S_initial_time, T_b>>, <<S_timezone, T_u>> >>)),
         One(S_select, Obj(<< <<S_options, Arr(<< Option(T_h) >>)>>, <<S_placeholder, T_b>> >>)),
         One(S_multi_select, One(S_options, Arr(<< Option(T_h) >>))),
         NativeButton,
         NativeButtonWithShorthand,
         Untyped }

ImageItem(fields) == One(S_image, Obj(<< <<S_alt, T_h>> >> \o fields))

\* the image items of a context block: url, slack_file, both, neither
ImageItems ==
  { ImageItem(<< <<S_url, T_u>> >>),
    ImageItem(<< <<S_slack_file, T_b>> >>),
    ImageItem(<< <<S_url, T_u>>, <<S_slack_file, T_b>> >>),
    ImageItem(<< >>),
    ImageItem(<< <<S_url, T_empty>>, <<S_slack_file, T_b>> >>) }

ShorthandBlocks ==
  { One(S_header, T_h),
    One(S_header, Obj(<< <<S_text, T_h>>, <<S_block_id, T_b>> >>)),
    One(S_header, Null),
    One(S_header, T_empty),
    One(S_section, One(S_text, T_empty)),
    One(S_divider, Bool(TRUE)),
    One(S_divider, One(S_block_id, T_b)),
    One(S_section, One(S_text, T_h)),
    One(S_section, Obj(<< <<S_text, T_empty>>, <<S_fields, Arr(<< T_h, T_b >>)>>,
                          <<S_block_id, T_b>> >>)),
    One(S_context, Arr(<< T_h >>)),
    One(S_context, One(S_block_id, T_b)),
    One(S_actions, Obj(<< >>)),
    One(S_image, Obj(<< <<S_url, T_u>>, <<S_alt, T_h>>, <<S_title, T_b>> >>)),
    One(S_image, Obj(<< <<S_url, T_u>>, <<S_slack_file, T_b>>, <<S_alt, T_h>> >>)),
    One(S_video, Obj(<< <<S_url, T_u>>, <<S_thumbnail, T_u>>, <<S_alt, T_h>>,
                        <<S_title, T_h>>, <<S_provider, T_b>> >>)),
    One(S_markdown, T_h),
    One(S_markdown, Arr(<< Num(12), Null, Bool(TRUE) >>)),
    One(S_file, One(S_external_id, T_u)),
    One(S_table, Obj(<< <<S_rows, Arr(<< Arr(<< T_h, T_b >>) >>)>>,
                        <<S_columns, Arr(<< One(S_label, T_h) >>)>> >>)) }
  \cup { One(S_raw, x) : x \in Fragments }
  \cup { One(S_section, Obj(<< <<S_text, T_h>>, <<S_accessory, el>> >>)) : el \in Elements }
  \cup { One(S_actions, One(S_elements, Arr(<< el >>))) : el \in Elements }
  \cup { One(S_actions, One(S_elements, Arr(<< One(S_button, One(S_text, T_b)), el >>))) :
           el \in { NativeButton, NativeButtonWithShorthand, Untyped,
                    One(S_raw, NativeButton) } }
  \cup { One(S_context, Arr(<< T_h, item >>)) : item \in ImageItems }
  \cup { One(S_context, Obj(<< <<S_elements, Arr(<< item >>)>>, <<S_block_id, T_b>> >>)) :
           item \in ImageItems }

\* blocks that carry no shorthand key
OtherBlocks ==
  { NativeSection, Obj(<< <<S_type, Str(S_divider)>>, <<S_foo, Num(1)>> >>),
    Untyped, Obj(<< >>), T_h, Null, Arr(<< T_h >>) }

Blocks == ShorthandBlocks \cup OtherBlocks \cup { NativeWithShorthand }

\* the blocks that follow the first one in a list
MoreBlocks ==
  { One(S_divider, Bool(TRUE)), One(S_raw, Untyped), NativeSection, Untyped,
    NativeWithShorthand, T_h }

\* lists of one to n blocks
BlockLists(n) ==
  UNION { { <<b>> \o tail : b \in Blocks, tail \in [1..k -> MoreBlocks] } : k \in 0..(n - 1) }

\* top-level fields next to blocks
TopFields ==
  { << >>,
    << <<S_text, T_h>> >>,
    << <<S_text, T_empty>> >>,
    << <<S_thread_ts, T_b>>, <<S_reply_broadcast, Bool(FALSE)>>,
       <<S_unfurl_links, Bool(TRUE)>>, <<S_unfurl_media, Bool(FALSE)>> >>,
    << <<S_text, T_h>>, <<S_thread_ts, T_empty>>, <<S_reply_broadcast, Null>> >>,
    << <<S_text, T_h>>, <<S_foo, Num(1)>> >> }

\* block lists that go with every choice of top-level fields
TopBlockLists ==
  { << One(S_divider, Bool(TRUE)) >>,
    << NativeSection, One(S_header, T_h) >>,
    << NativeSection >>,
    << Untyped >>,
    << NativeWithShorthand >> }

CompileMessages ==
  { Obj(top) : top \in TopFields }
  \cup { Obj(top \o << <<S_blocks, b>> >>) :
           top \in TopFields, b \in { Arr(<< >>), T_h, One(S_header, T_h), Null } }
  \cup { Obj(top \o << <<S_blocks, Arr(bs)>> >>) : top \in TopFields, bs \in TopBlockLists }
  \cup { One(S_blocks, Arr(bs)) : bs \in BlockLists(MaxBlocks) }

-----------------------------------------------------------------------------
(* Pipeline collaborators *)

\* validateSchema: TemplateSchema.safeParse(template).success
SchemaValid(tpl) ==
  /\ tpl.version = "1"
  /\ tpl.name # ""
  /\ tpl.destination.t = "obj"
  /\ Prop(tpl.destination, S_service).t = "str"
  /\ Prop(tpl.destination, S_service).s # << >>
  /\ tpl.message.t = "obj"

validateSchema(tpl) ==
  IF SchemaValid(tpl) THEN OkNode(Undefined) ELSE Throw("TemplateValidationError", << >>)

\* loadTemplate: the file is read and parsed, or reading or parsing throws
LoadOutcomes == { "loaded", "Error: Template not found", "YAMLException" }

\* resolveCredentials: a flat mapping of keys to secrets for the service, or
\* a missing-credentials failure
CredentialOutcomes ==
  { [ok |-> TRUE, val |-> (S_botToken :> <<"x">>), err |-> NoErr],
    [ok |-> TRUE, val |-> (S_botToken :> << >>), err |-> NoErr],
    [ok |-> TRUE, val |-> << >>, err |-> NoErr],
    Throw("MissingCredentialsError", << >>) }

\* getAdapter(service): the adapters map has the one key 'slack'
getAdapter(service) ==
  IF service = Str(S_slack) THEN OkNode(Str(S_slack))
  ELSE Throw("UnknownServiceError", << >>)

SLACK_POST_MESSAGE_URL == "https://slack.com/api/chat.postMessage"
SLACK_UPLOAD_URL_EXTERNAL == "https://slack.com/api/files.getUploadURLExternal"
SLACK_COMPLETE_UPLOAD_URL == "https://slack.com/api/files.completeUploadExternal"

\* what the service answers to a request: a JSON body, or ky throws
\* (HTTP error status, network failure)
UrlGranted ==
  Obj(<< <<S_ok, Bool(TRUE)>>, <<S_upload_url, T_u>>, <<S_file_id, T_b>> >>)
Accepted == Obj(<< <<S_ok, Bool(TRUE)>>, <<S_ts, T_h>> >>)
Refused == Obj(<< <<S_ok, Bool(FALSE)>>, <<S_error, T_b>> >>)
HTTPError == Throw("HTTPError", << >>)
Answer(body) == OkNode(body)

\* files on disk: path -> content
P_report == <<"/","r","/","a",".","t","x","t">>
P_gone == <<"/","r","/","g","o","n","e">>
Disk == (P_report :> <<"x","y","z">>)

\* file.path.split('/').pop()
RECURSIVE LastSegment(_)
LastSegment(path) ==
  IF \E i \in DOMAIN path : path[i] = "/"
  THEN LET i == CHOOSE i \in DOMAIN path : path[i] = "/" IN
       LastSegment(SubSeq(path, i + 1, Len(path)))
  ELSE path

\* file.filename ?? file.path.split('/').pop() ?? 'file'
Filename(file) ==
  IF ~Nullish(Prop(file, S_filename)) THEN Prop(file, S_filename)
  ELSE Str(LastSegment(Prop(file, S_path).s))

\* { channel, ...message }
Payload(channel, message) ==
  Obj(fromEntries(<< <<S_channel, channel>> >> \o message.entries))

\* body of files.completeUploadExternal
CompleteBody(file, fileId, channel) ==
  Obj(<< <<S_files, Arr(<< Obj(<< <<S_id, fileId>>,
            <<S_title, IF ~Nullish(Prop(file, S_title)) THEN Prop(file, S_title)
                       ELSE Filename(file)>> >>) >>)>>,
         <<S_channel_id, channel>> >>
      \o (IF Truthy(Prop(file, S_alt_text))
          THEN << <<S_initial_comment, Prop(file, S_alt_text)>> >> ELSE << >>))

-----------------------------------------------------------------------------
(* Inputs: pipeline runs *)

\* Entries of destination.files in the pipeline scenarios.
MaxFiles == 2

File(path) == One(S_path, Str(path))

FileLists(n) ==
  UNION { [1..k -> { File(P_report), File(P_gone),
                     Obj(<< <<S_path, Str(P_report)>>, <<S_title, T_h>>,
                            <<S_alt_text, T_b>> >>) }] : k \in 1..n }

DispatchDestinations ==
  { Destination(<<"#","c">>),
    One(S_service, Str(S_slack)),
    Obj(<< <<S_service, Str(S_slack)>>, <<S_channel, T_empty>> >>),
    Obj(<< <<S_service, Str(S_markdown)>>, <<S_channel, Str(<<"#","c">>)>> >>),
    Obj(<< <<S_service, Str(S_slack)>>, <<S_channel, Str(<<"#","c">>)>>,
           <<S_files, Arr(<< >>)>> >>) }
  \cup { Obj(<< <<S_service, Str(S_slack)>>, <<S_channel, Str(<<"#","c">>)>>,
                <<S_files, Arr(fs)>> >>) : fs \in FileLists(MaxFiles) }

DispatchMessages ==
  { One(S_text, Str(Tok(N_a))),
    One(S_blocks, Arr(<< One(S_header, Str(Tok(N_a))), NativeSection >>)),
    One(S_blocks, Arr(<< One(S_header, T_h), Untyped >>)),
    One(S_blocks, Arr(<< Untyped >>)),
    One(S_blocks, Str(Tok(N_a))),
    Obj(<< <<S_text, T_h>>, <<S_channel, Str(<<"#","o">>)>> >>),
    Obj(<< >>) }

DispatchDeclared == { << >>, << <<N_a, D_req>> >>, << <<N_a, D_def>> >> }

\* what the template file holds once parsed
DispatchTemplates ==
  { Template(d, dest, m) :
      d \in DispatchDeclared, dest \in DispatchDestinations, m \in DispatchMessages }
  \cup { [Template(<< >>, Destination(<<"#","c">>), One(S_text, T_h)) EXCEPT !.version = "2"],
         Template(<< >>, Obj(<< >>), One(S_text, T_h)),
         Template(<< >>, Destination(<<"#","c">>), Arr(<< >>)) }

-----------------------------------------------------------------------------
(* State machine of the interpolation engine and the validator *)

NotRun == Throw("notrun", << >>)

\* nothing validated, interpolated, resolved or collected yet
IdleEngine ==
  /\ vresult = NotRun
  /\ iresult = NotRun
  /\ rtoken = << >>
  /\ rresult = NotRun
  /\ collected = {}

\* no message given to the adapter yet
IdleCompile ==
  /\ msg = Undefined
  /\ cresult = NotRun
  /\ mresult = NotRun

\* no dispatch call under way
IdleDispatch ==
  /\ opts = [dryRun |-> FALSE]
  /\ stages = << >>
  /\ dresult = NotRun
  /\ credentials = << >>
  /\ io = << >>
  /\ delivered = << >>
  /\ fileIndex = 0

InitCtx ==
  /\ template \in CtxTemplates
  /\ vars \in Objects(CtxVarKeys, CtxVarValues, MaxCtxVars)
  /\ env \in Objects(CtxEnvKeys, {V_e}, 2)
  /\ seed \in Seeds

InitTree ==
  /\ template \in TreeTemplates
  /\ vars \in Objects(TreeVarKeys, TreeVarValues, MaxVars)
  /\ env \in Objects(TreeEnvKeys, {V_e}, 1)
  /\ seed = 1

Init ==
  /\ InitCtx \/ InitTree
  /\ pc = "idle"
  /\ IdleEngine
  /\ IdleCompile
  /\ IdleDispatch
  /\ suspended = << >>

\* validateVariables(template, vars)
ValidateVariables ==
  /\ pc = "idle"
  /\ vresult' = validateVariables(template, vars)
  /\ pc' = "validated"
  /\ UNCHANGED <<template, vars, env, seed, iresult, rtoken, rresult, collected>>
  /\ UNCHANGED <<vars_compile, vars_dispatch>>
  /\ UNCHANGED vars_tasks

\* interpolate(template, vars, env), called directly or after the
\* required-variable check passed
Interpolate ==
  /\ pc = "idle" \/ (pc = "validated" /\ vresult.ok)
  /\ iresult' = interpolate(template, vars, env, seed)
  /\ pc' = "interpolated"
  /\ UNCHANGED <<template, vars, env, seed, vresult, rtoken, rresult, collected>>
  /\ UNCHANGED <<vars_compile, vars_dispatch>>
  /\ UNCHANGED vars_tasks

\* resolveToken(token, ctx) in the context interpolate builds
ResolveToken ==
  /\ pc = "idle"
  /\ \E token \in TokenNames :
       /\ rtoken' = token
       /\ rresult' = resolveToken(token, InterpolationContext(template, vars, env, seed), 0)
  /\ pc' = "resolved"
  /\ UNCHANGED <<template, vars, env, seed, vresult, iresult, collected>>
  /\ UNCHANGED <<vars_compile, vars_dispatch>>
  /\ UNCHANGED vars_tasks

\* collectTokens over the resolved destination and message
CollectTokens ==
  /\ pc = "interpolated"
  /\ iresult.ok
  /\ collected' = collectTokens(iresult.val.destination) \cup collectTokens(iresult.val.message)
  /\ pc' = "collected"
  /\ UNCHANGED <<template, vars, env, seed, vresult, iresult, rtoken, rresult>>
  /\ UNCHANGED <<vars_compile, vars_dispatch>>
  /\ UNCHANGED vars_tasks

Next == ValidateVariables \/ Interpolate \/ ResolveToken \/ CollectTokens

Spec == Init /\ [][Next]_vars_all

-----------------------------------------------------------------------------
(* State machine of SlackAdapter.compile and SlackAdapter.validate *)

InitCompile ==
  /\ msg \in CompileMessages
  /\ pc = "message"
  /\ cresult = NotRun
  /\ mresult = NotRun
  /\ template = Template(<< >>, Destination(<<"#","c">>), Obj(<< >>))
  /\ vars = << >>
  /\ env = << >>
  /\ seed = 1
  /\ IdleEngine
  /\ IdleDispatch
  /\ suspended = << >>

\* adapter.compile(message)
Compile ==
  /\ pc = "message"
  /\ cresult' = compile(msg)
  /\ pc' = "compiled"
  /\ UNCHANGED <<msg, mresult, vars_input, vars_engine, vars_dispatch>>
  /\ UNCHANGED vars_tasks

\* adapter.validate(compiledMessage)
Validate ==
  /\ pc = "compiled"
  /\ cresult.ok
  /\ mresult' = validate(cresult.val)
  /\ pc' = "checked"
  /\ UNCHANGED <<msg, cresult, vars_input, vars_engine, vars_dispatch>>
  /\ UNCHANGED vars_tasks

NextCompile == Compile \/ Validate

SpecCompile == InitCompile /\ [][NextCompile]_vars_all

-----------------------------------------------------------------------------
(* State machine of dispatch and SlackAdapter.send *)

InitDispatch ==
  /\ template \in DispatchTemplates
  /\ vars \in Objects({N_a}, {V_v}, 1)
  /\ env = << >>
  /\ seed = 1
  /\ opts \in [dryRun : BOOLEAN]
  /\ pc = "load"
  /\ stages = << >>
  /\ dresult = NotRun
  /\ credentials = << >>
  /\ io = << >>
  /\ delivered = << >>
  /\ fileIndex = 0
  /\ IdleEngine
  /\ IdleCompile
  /\ suspended = << >>

\* a stage ended without throwing: dispatch goes on to the next statement
Proceed(stage, next) ==
  /\ stages' = Append(stages, stage)
  /\ pc' = next
  /\ UNCHANGED dresult

\* a stage threw: the promise dispatch returned rejects with what was thrown
Reject(stage, thrown) ==
  /\ stages' = Append(stages, stage)
  /\ pc' = "rejected"
  /\ dresult' = thrown

\* 1. const template = await loadTemplate(nameOrPath)
DispatchLoad ==
  /\ pc = "load"
  /\ \E outcome \in LoadOutcomes :
       IF outcome = "loaded" THEN Proceed("load", "schema")
       ELSE Reject("load", Throw(outcome, << >>))
  /\ UNCHANGED <<vars_input, vars_engine, vars_compile, opts, credentials, vars_send>>
  /\ UNCHANGED vars_tasks

\* schema validation whose failure is not thrown
DispatchSchemaFailureIgnored ==
  /\ pc = "schema"
  /\ Proceed("schema", "variables")
  /\ UNCHANGED <<vars_input, vars_engine, vars_compile, opts, credentials, vars_send>>
  /\ UNCHANGED vars_tasks

\* 2. validateSchema(template)
DispatchSchema ==
  /\ pc = "schema"
  /\ IF validateSchema(template).ok THEN Proceed("schema", "variables")
     ELSE Reject("schema", validateSchema(template))
  /\ UNCHANGED <<vars_input, vars_engine, vars_compile, opts, credentials, vars_send>>
  /\ UNCHANGED vars_tasks

\* 3. validateVariables(template, vars)
DispatchVariables ==
  /\ pc = "variables"
  /\ vresult' = validateVariables(template, vars)
  /\ IF vresult'.ok THEN Proceed("variables", "credentials")
     ELSE Reject("variables", vresult')
  /\ UNCHANGED <<vars_input, iresult, rtoken, rresult, collected, vars_compile, opts,
                 credentials, vars_send>>
  /\ UNCHANGED vars_tasks

\* 4. const credentials = await resolveCredentials(template.destination.service, ...)
DispatchCredentials ==
  /\ pc = "credentials"
  /\ \E outcome \in CredentialOutcomes :
       IF outcome.ok
       THEN credentials' = outcome.val /\ Proceed("credentials", "interpolate")
       ELSE UNCHANGED credentials /\ Reject("credentials", outcome)
  /\ UNCHANGED <<vars_input, vars_engine, vars_compile, opts, vars_send>>
  /\ UNCHANGED vars_tasks

\* 5. const resolved = interpolate(template, vars)
DispatchInterpolate ==
  /\ pc = "interpolate"
  /\ iresult' = interpolate(template, vars, env, seed)
  /\ IF iresult'.ok THEN Proceed("interpolate", "adapter")
     ELSE Reject("interpolate", iresult')
  /\ UNCHANGED <<vars_input, vresult, rtoken, rresult, collected, vars_compile, opts,
                 credentials, vars_send>>
  /\ UNCHANGED vars_tasks

\* 6. const adapter = getAdapter(resolved.destination.service)
DispatchAdapter ==
  /\ pc = "adapter"
  /\ LET adapter == getAdapter(Prop(iresult.val.destination, S_service)) IN
     IF adapter.ok THEN Proceed("adapter", "compile") ELSE Reject("adapter", adapter)
  /\ UNCHANGED <<vars_input, vars_engine, vars_compile, opts, credentials, vars_send>>
  /\ UNCHANGED vars_tasks

\* 7. const compiledMessage = adapter.compile?.(resolved.message) ?? resolved.message
DispatchCompile ==
  /\ pc = "compile"
  /\ msg' = iresult.val.message
  /\ cresult' = compile(iresult.val.message)
  /\ IF cresult'.ok THEN Proceed("compile", "validate") ELSE Reject("compile", cresult')
  /\ UNCHANGED <<vars_input, vars_engine, mresult, opts, credentials, vars_send>>
  /\ UNCHANGED vars_tasks

\* 8. adapter.validate(compiledMessage)
DispatchValidate ==
  /\ pc = "validate"
  /\ mresult' = validate(cresult.val)
  /\ IF mresult'.ok THEN Proceed("validate", IF opts.dryRun THEN "dryrun" ELSE "send")
     ELSE Reject("validate", mresult')
  /\ UNCHANGED <<vars_input, vars_engine, msg, cresult, opts, credentials, vars_send>>
  /\ UNCHANGED vars_tasks

\* a dry run that returns the interpolated message, not the compiled one
DispatchDryRunUncompiled ==
  /\ pc = "dryrun"
  /\ stages' = Append(stages, "dryrun")
  /\ dresult' = [ok |-> TRUE, err |-> NoErr,
                 val |-> [success |-> TRUE, service |-> S_slack,
                          templateName |-> iresult.val.name,
                          resolvedMessage |-> iresult.val.message]]
  /\ pc' = "returned"
  /\ UNCHANGED <<vars_input, vars_engine, vars_compile, opts, credentials, vars_send>>
  /\ UNCHANGED vars_tasks

\* 9. if (opts.dryRun) return { success, service, templateName, resolvedMessage }
DispatchDryRun ==
  /\ pc = "dryrun"
  /\ stages' = Append(stages, "dryrun")
  /\ dresult' = [ok |-> TRUE, err |-> NoErr,
                 val |-> [success |-> TRUE, service |-> S_slack,
                          templateName |-> iresult.val.name,
                          resolvedMessage |-> cresult.val]]
  /\ pc' = "returned"
  /\ UNCHANGED <<vars_input, vars_engine, vars_compile, opts, credentials, vars_send>>
  /\ UNCHANGED vars_tasks

\* destination.files of the resolved template
SendFiles == Prop(iresult.val.destination, S_files)
SendChannel == Prop(iresult.val.destination, S_channel)
\* credentials.botToken
SendToken ==
  IF S_botToken \in DOMAIN credentials THEN Str(credentials[S_botToken]) ELSE Undefined

\* send without its test of destination.channel
DispatchSendChannelUnchecked ==
  /\ pc = "send"
  /\ IF ~Truthy(SendToken) THEN Reject("send", Throw("MissingCredentialsError", << >>))
     ELSE IF Truthy(SendFiles) /\ SendFiles.t = "arr" /\ Len(SendFiles.items) > 0
     THEN Proceed("send", "readFile")
     ELSE Proceed("send", "postMessage")
  /\ fileIndex' = 1
  /\ UNCHANGED <<vars_input, vars_engine, vars_compile, opts, credentials, io, delivered>>
  /\ UNCHANGED vars_tasks

\* 10. adapter.send(compiledMessage, resolved.destination, credentials), up
\* to its first await
DispatchSend ==
  /\ pc = "send"
  /\ IF ~Truthy(SendToken) THEN Reject("send", Throw("MissingCredentialsError", << >>))
     ELSE IF ~Truthy(SendChannel) THEN Reject("send", AdapterValidationError)
     ELSE IF Truthy(SendFiles) /\ SendFiles.t = "arr" /\ Len(SendFiles.items) > 0
     THEN Proceed("send", "readFile")
     ELSE Proceed("send", "postMessage")
  /\ fileIndex' = 1
  /\ UNCHANGED <<vars_input, vars_engine, vars_compile, opts, credentials, io, delivered>>
  /\ UNCHANGED vars_tasks

\* the send threw: dispatch rejects with it
SendFails(thrown) == pc' = "rejected" /\ dresult' = thrown

\* uploadFiles: const content = await fs.readFile(file.path)
UploadReadFile ==
  /\ pc = "readFile"
  /\ LET path == Prop(SendFiles.items[fileIndex], S_path).s IN
     /\ io' = Append(io, [op |-> "readFile", path |-> path])
     /\ IF path \in DOMAIN Disk THEN pc' = "getUploadURL" /\ UNCHANGED dresult
        ELSE SendFails(Throw("ENOENT", << >>))
  /\ UNCHANGED <<vars_input, vars_engine, vars_compile, opts, credentials, stages,
                 delivered, fileIndex>>
  /\ UNCHANGED vars_tasks

\* uploadFiles, step 1: post(SLACK_UPLOAD_URL_EXTERNAL, { filename, length })
UploadGetURL ==
  /\ pc = "getUploadURL"
  /\ LET file == SendFiles.items[fileIndex] IN
     io' = Append(io, [op |-> "post", url |-> SLACK_UPLOAD_URL_EXTERNAL,
                       body |-> Obj(<< <<S_filename, Filename(file)>>,
                                       <<S_length, Num(Len(Disk[Prop(file, S_path).s]))>> >>)])
  /\ \E answer \in { Answer(UrlGranted), Answer(Refused), HTTPError } :
       IF ~answer.ok THEN SendFails(answer)
       ELSE IF ~Truthy(Prop(answer.val, S_ok))
       THEN SendFails(Throw("Error: Slack file upload error (getUploadURL)", << >>))
       ELSE pc' = "transfer" /\ UNCHANGED dresult
  /\ UNCHANGED <<vars_input, vars_engine, vars_compile, opts, credentials, stages,
                 delivered, fileIndex>>
  /\ UNCHANGED vars_tasks

\* uploadFiles, step 2: post(uploadUrl, content)
UploadTransfer ==
  /\ pc = "transfer"
  /\ io' = Append(io, [op |-> "post", url |-> "upload_url",
                       body |-> Str(Disk[Prop(SendFiles.items[fileIndex], S_path).s])])
  /\ \E answer \in { Answer(Obj(<< >>)), HTTPError } :
       IF ~answer.ok THEN SendFails(answer)
       ELSE pc' = "completeUpload" /\ UNCHANGED dresult
  /\ UNCHANGED <<vars_input, vars_engine, vars_compile, opts, credentials, stages,
                 delivered, fileIndex>>
  /\ UNCHANGED vars_tasks

\* step 3 without the test of completeResult.ok
UploadCompleteResultIgnored ==
  /\ pc = "completeUpload"
  /\ LET body == CompleteBody(SendFiles.items[fileIndex], Prop(UrlGranted, S_file_id),
                              SendChannel)
     IN /\ io' = Append(io, [op |-> "post", url |-> SLACK_COMPLETE_UPLOAD_URL, body |-> body])
        /\ \E answer \in { Answer(Accepted), Answer(Refused), HTTPError } :
             IF ~answer.ok
             THEN SendFails(answer) /\ UNCHANGED <<delivered, fileIndex>>
             ELSE /\ delivered' = IF Truthy(Prop(answer.val, S_ok))
                                  THEN Append(delivered, [kind |-> "file", body |-> body])
                                  ELSE delivered
                  /\ IF fileIndex < Len(SendFiles.items)
                     THEN fileIndex' = fileIndex + 1 /\ pc' = "readFile"
                     ELSE UNCHANGED fileIndex /\ pc' = "postMessage"
                  /\ UNCHANGED dresult
  /\ UNCHANGED <<vars_input, vars_engine, vars_compile, opts, credentials, stages>>
  /\ UNCHANGED vars_tasks

\* uploadFiles, step 3: post(SLACK_COMPLETE_UPLOAD_URL, ...) shares the file
\* to the channel when the service answers ok
UploadComplete ==
  /\ pc = "completeUpload"
  /\ LET body == CompleteBody(SendFiles.items[fileIndex], Prop(UrlGranted, S_file_id),
                              SendChannel)
     IN /\ io' = Append(io, [op |-> "post", url |-> SLACK_COMPLETE_UPLOAD_URL, body |-> body])
        /\ \E answer \in { Answer(Accepted), Answer(Refused), HTTPError } :
             IF ~answer.ok
             THEN SendFails(answer) /\ UNCHANGED <<delivered, fileIndex>>
             ELSE IF ~Truthy(Prop(answer.val, S_ok))
             THEN /\ SendFails(Throw("Error: Slack file upload error (completeUpload)", << >>))
                  /\ UNCHANGED <<delivered, fileIndex>>
             ELSE /\ delivered' = Append(delivered, [kind |-> "file", body |-> body])
                  /\ IF fileIndex < Len(SendFiles.items)
                     THEN fileIndex' = fileIndex + 1 /\ pc' = "readFile"
                     ELSE UNCHANGED fileIndex /\ pc' = "postMessage"
                  /\ UNCHANGED dresult
  /\ UNCHANGED <<vars_input, vars_engine, vars_compile, opts, credentials, stages>>
  /\ UNCHANGED vars_tasks

\* post(SLACK_POST_MESSAGE_URL, { channel, ...message }) posts the message
\* when the service answers ok; dispatch then returns the response
PostMessage ==
  /\ pc = "postMessage"
  /\ LET payload == Payload(SendChannel, cresult.val) IN
     /\ io' = Append(io, [op |-> "post", url |-> SLACK_POST_MESSAGE_URL, body |-> payload])
     /\ \E answer \in { Answer(Accepted), Answer(Refused), HTTPError } :
          IF ~answer.ok THEN SendFails(answer) /\ UNCHANGED delivered
          ELSE IF ~Truthy(Prop(answer.val, S_ok))
          THEN SendFails(Throw("Error: Slack API error", << >>)) /\ UNCHANGED delivered
          ELSE /\ delivered' = Append(delivered, [kind |-> "message", body |-> payload])
               /\ dresult' = [ok |-> TRUE, err |-> NoErr,
                              val |-> [success |-> TRUE, service |-> S_slack,
                                       templateName |-> iresult.val.name,
                                       response |-> answer.val]]
               /\ pc' = "returned"
  /\ UNCHANGED <<vars_input, vars_engine, vars_compile, opts, credentials, stages, fileIndex>>
  /\ UNCHANGED vars_tasks

NextDispatch ==
  \/ DispatchLoad \/ DispatchSchema \/ DispatchVariables \/ DispatchCredentials
  \/ DispatchInterpolate \/ DispatchAdapter \/ DispatchCompile \/ DispatchValidate
  \/ DispatchDryRun \/ DispatchSend
  \/ UploadReadFile \/ UploadGetURL \/ UploadTransfer \/ UploadComplete \/ PostMessage

SpecDispatch == InitDispatch /\ [][NextDispatch]_vars_all

-----------------------------------------------------------------------------
(* Two dispatch calls on the one event loop *)

\* What a dispatch call holds of its own: its arguments, the locals of
\* dispatch, of SlackAdapter.send and of uploadFiles, the promise it returned
\* and the requests it made.  process.env, the adapters map and the service
\* (env, seed, delivered) belong to the process, not to a call.
Local ==
  [template |-> template, vars |-> vars, opts |-> opts, pc |-> pc,
   stages |-> stages, dresult |-> dresult, credentials |-> credentials,
   vresult |-> vresult, iresult |-> iresult, msg |-> msg, cresult |-> cresult,
   mresult |-> mresult, io |-> io, fileIndex |-> fileIndex]

\* A call yields the event loop at an await and nowhere else: loadTemplate,
\* resolveCredentials, fs.readFile and the four posts.  A call that is over
\* runs no more.
AwaitPoints ==
  { "load", "credentials", "readFile", "getUploadURL", "transfer", "completeUpload",
    "postMessage", "returned", "rejected" }

\* the other call runs on with what it held when it yielded
Resume(other) ==
  /\ template' = other.template
  /\ vars' = other.vars
  /\ opts' = other.opts
  /\ pc' = other.pc
  /\ stages' = other.stages
  /\ dresult' = other.dresult
  /\ credentials' = other.credentials
  /\ vresult' = other.vresult
  /\ iresult' = other.iresult
  /\ msg' = other.msg
  /\ cresult' = other.cresult
  /\ mresult' = other.mresult
  /\ io' = other.io
  /\ fileIndex' = other.fileIndex

\* an adapter that keeps the compiled message in a field of the one
\* SlackAdapter instance of the adapters map
SwitchCompiledMessageShared ==
  /\ suspended # << >>
  /\ pc \in AwaitPoints
  /\ LET other == suspended[1] IN
     /\ template' = other.template
     /\ vars' = other.vars
     /\ opts' = other.opts
     /\ pc' = other.pc
     /\ stages' = other.stages
     /\ dresult' = other.dresult
     /\ credentials' = other.credentials
     /\ vresult' = other.vresult
     /\ iresult' = other.iresult
     /\ msg' = other.msg
     /\ mresult' = other.mresult
     /\ io' = other.io
     /\ fileIndex' = other.fileIndex
  /\ suspended' = << Local >>
  /\ UNCHANGED <<cresult, env, seed, rtoken, rresult, collected, delivered>>

\* The running call waits at an await (or is over) and the event loop runs
\* the other call.  Nothing of a call is kept at module level: the adapters
\* map is only read, SlackAdapter has no fields, TOKEN_REGEX is used by
\* replace and matchAll, which start from lastIndex 0 and run to the end
\* within one synchronous statement.
Switch ==
  /\ suspended # << >>
  /\ pc \in AwaitPoints
  /\ Resume(suspended[1])
  /\ suspended' = << Local >>
  /\ UNCHANGED <<env, seed, rtoken, rresult, collected, delivered>>

\* the process environment of the two calls
ProcessEnv == (N_USER :> V_e)

\* dispatch(nameOrPath, vars, opts): the calls that are interleaved
ConcurrentCalls ==
  { [template |-> [Template(<< <<N_a, D_req>> >>, Destination(<<"#","c">>),
                            One(S_text, Str(Tok(N_a)))) EXCEPT !.name = "text"],
     vars |-> (N_a :> V_v), opts |-> [dryRun |-> FALSE]],
    [template |-> [Template(<< >>,
                            Obj(<< <<S_service, Str(S_slack)>>,
                                   <<S_channel, Str(Tok(N_USER))>>,
                                   <<S_files, Arr(<< File(P_report) >>)>> >>),
                            One(S_blocks, Arr(<< One(S_header, T_h), NativeSection >>)))
                   EXCEPT !.name = "files"],
     vars |-> << >>, opts |-> [dryRun |-> FALSE]],
    [template |-> [Template(<< <<N_a, D_def>> >>, Destination(<<"#","c">>),
                            One(S_blocks, Arr(<< One(S_header, Str(Tok(N_a))) >>)))
                   EXCEPT !.name = "dry"],
     vars |-> << >>, opts |-> [dryRun |-> TRUE]],
    [template |-> [Template(<< <<N_a, D_req>> >>, Destination(<<"#","c">>),
                            One(S_text, Str(Tok(N_a)))) EXCEPT !.name = "unset"],
     vars |-> << >>, opts |-> [dryRun |-> FALSE]] }

\* a call as dispatch is entered
Entered(call) ==
  [template |-> call.template, vars |-> call.vars, opts |-> call.opts, pc |-> "load",
   stages |-> << >>, dresult |-> NotRun, credentials |-> << >>,
   vresult |-> NotRun, iresult |-> NotRun, msg |-> Undefined, cresult |-> NotRun,
   mresult |-> NotRun, io |-> << >>, fileIndex |-> 0]

InitConcurrent ==
  /\ \E first \in ConcurrentCalls, second \in ConcurrentCalls :
       /\ template = first.template
       /\ vars = first.vars
       /\ opts = first.opts
       /\ suspended = << Entered(second) >>
  /\ env = ProcessEnv
  /\ seed = 1
  /\ pc = "load"
  /\ stages = << >>
  /\ dresult = NotRun
  /\ credentials = << >>
  /\ io = << >>
  /\ delivered = << >>
  /\ fileIndex = 0
  /\ IdleEngine
  /\ IdleCompile

NextConcurrent == NextDispatch \/ Switch

SpecConcurrent == InitConcurrent /\ [][NextConcurrent]_vars_all

-----------------------------------------------------------------------------
(* Vocabulary of the properties *)

\* the context of the current call
Ctx == InterpolationContext(template, vars, env, seed)

DeclaredVariables == template.variables

\* the declared default of name resolved in the current context, as the
\* default tier hands it back
ResolvedDefault(name) == resolveTokens(Get(DeclaredVariables, name).default, Ctx, 1)

\* the resolution tiers as the specification words them
BuiltinTier(name) == name \in BUILTINS
CallerTier(name) == name \in DOMAIN vars
EnvTier(name) == ALL_CAPS_REGEX(name) /\ name \in DOMAIN env
DefaultTier(name) == name \in Keys(DeclaredVariables) /\ Get(DeclaredVariables, name).hasDefault

IsMissing(r, names) == ~r.ok /\ r.err.kind = "MissingVariableError" /\ r.err.tokens = names

\* every string of a tree: string leaves and object keys
RECURSIVE Strings(_)
Strings(node) ==
  IF node.t = "str" THEN {node.s}
  ELSE IF node.t = "arr" THEN UNION { Strings(node.items[i]) : i \in DOMAIN node.items }
  ELSE IF node.t = "obj"
  THEN UNION { {node.entries[i][1]} \cup Strings(node.entries[i][2]) : i \in DOMAIN node.entries }
  ELSE {}

TemplateStrings == Strings(template.destination) \cup Strings(template.message)
UsedTokens == collectTokens(template.destination) \cup collectTokens(template.message)

-----------------------------------------------------------------------------
(* C1 *)

\* C1: for every token name and context, resolving the token returns the
\* value of the first tier that matches, in the order built-in (now,
\* timestamp, uuid), caller variable of exactly that name, environment entry
\* (all-caps names only), declared default with its own tokens resolved.
C1_FirstMatchingTier ==
  pc = "resolved" =>
    LET name == trim(rtoken) IN
    IF BuiltinTier(name) THEN rresult = CallBUILTIN(name, seed)
    ELSE IF CallerTier(name) THEN rresult = OkStr(vars[name])
    ELSE IF EnvTier(name) THEN rresult = OkStr(env[name])
    ELSE IF DefaultTier(name) THEN rresult = ResolvedDefault(name)
    ELSE TRUE

-----------------------------------------------------------------------------
(* C2 *)

\* name is answered by its declared default: no built-in, caller variable or
\* environment entry comes first
ByDefault(name) ==
  ~BuiltinTier(name) /\ ~CallerTier(name) /\ ~EnvTier(name) /\ DefaultTier(name)

\* the tokens the default of name refers to
Refs(name) == IF ByDefault(name) THEN MatchAllFrom(Get(DeclaredVariables, name).default, 1) ELSE {}

RECURSIVE ReachN(_, _)
ReachN(S, k) == IF k = 0 THEN S ELSE ReachN(S \cup UNION { Refs(n) : n \in S }, k - 1)

\* the default of name leads back to name
OnCycle(name) == name \in ReachN(Refs(name), Len(DeclaredVariables))

\* the template uses tokens, and every one of them lies on a cycle of defaults
CycleCase == UsedTokens # {} /\ \A n \in UsedTokens : OnCycle(n)

\* C2: interpolate on a template whose defaults form a cycle that a used
\* token enters fails with a circular-reference error, distinct from the
\* missing-variable error, and never with a stack overflow.
C2_CircularReferenceError ==
  (pc = "interpolated" /\ CycleCase) =>
    (~iresult.ok /\ iresult.err.kind = "CircularReferenceError")

-----------------------------------------------------------------------------
(* C3 *)

\* token name cannot be resolved in the current context
Unresolved(name) == IsMissing(resolveToken(name, Ctx, 0), <<name>>)

\* C3: when a string of the template holds two or more distinct tokens none
\* of which resolves, the missing-variable error interpolate raises names
\* all of them.
C3_EveryUnresolvedTokenNamed ==
  pc = "interpolated" =>
    \A s \in TemplateStrings :
      LET T == MatchAllFrom(s, 1) IN
      (Cardinality(T) >= 2 /\ \A n \in T : Unresolved(n)) =>
        (~iresult.ok /\ iresult.err.kind = "MissingVariableError"
           /\ T \subseteq Range(iresult.err.tokens))

-----------------------------------------------------------------------------
(* C4 *)

\* C4: whenever interpolate returns, the returned destination and message
\* hold no token (collectTokens over them is empty) and the result is marked
\* _resolved, for arbitrary caller-variable and environment values.
C4_NoTokenLeft ==
  pc = "collected" => (collected = {} /\ iresult.val._resolved)

\* a value that is not empty and holds no brace
Plain(s) == s # << >> /\ "{" \notin Range(s) /\ "}" \notin Range(s)

\* every caller-variable value, environment value and resolved default is plain
PlainValues ==
  /\ \A k \in DOMAIN vars : Plain(vars[k])
  /\ \A k \in DOMAIN env : Plain(env[k])
  /\ \A k \in Keys(DeclaredVariables) :
       (DefaultTier(k) /\ ResolvedDefault(k).ok) => Plain(ResolvedDefault(k).val)

\* C4 (amended): whenever interpolate returns, the result is marked
\* _resolved, and the returned destination and message hold no token provided
\* every caller-variable value, environment value and resolved default is
\* non-empty and holds no brace; a substituted value is never scanned again.
C4_NoTokenLeftPlainValues ==
  pc = "collected" => (iresult.val._resolved /\ (PlainValues => collected = {}))

C4_Witness ==
  /\ pc = "collected"
  /\ PlainValues
  /\ Cardinality(UsedTokens) >= 2
  /\ collected = {}

-----------------------------------------------------------------------------
(* C5 *)

EnvWithout(name) == [k \in DOMAIN env \ {name} |-> env[k]]

-----------------------------------------------------------------------------
(* C6 *)

\* C6: a token that is no built-in (now, timestamp, uuid), no key of the
\* caller variables, not found through the all-caps environment rule and has
\* no declared default fails with a missing-variable error naming it; this
\* holds for names every object inherits, such as toString.
C6_NoTierMeansMissing ==
  pc = "resolved" =>
    LET name == trim(rtoken) IN
    (~BuiltinTier(name) /\ ~CallerTier(name) /\ ~EnvTier(name) /\ ~DefaultTier(name))
      => IsMissing(rresult, <<name>>)

-----------------------------------------------------------------------------
(* C7 *)

\* the template holds a token whose name is empty after trimming
BlankTokenUsed == << >> \in UsedTokens

\* C7: interpolate of a template holding a token whose name is empty after
\* trimming fails with a missing-variable error, whatever the caller
\* variables, environment and declared variables (an entry with the empty
\* key included).
C7_BlankTokenUnresolvable ==
  (pc = "interpolated" /\ BlankTokenUsed) =>
    (~iresult.ok /\ iresult.err.kind = "MissingVariableError")

-----------------------------------------------------------------------------
(* C8 *)

\* declared with required: true and a default, and not supplied by the caller
RequiredWithDefault(key) ==
  /\ key \in Keys(DeclaredVariables)
  /\ Get(DeclaredVariables, key).required = "true"
  /\ Get(DeclaredVariables, key).hasDefault
  /\ key \notin DOMAIN vars

-----------------------------------------------------------------------------
(* C9 *)

\* the declared names that are required and not supplied
M ==
  { key \in Keys(DeclaredVariables) :
      /\ Get(DeclaredVariables, key).required # "false"
      /\ ~Get(DeclaredVariables, key).hasDefault
      /\ key \notin DOMAIN vars }

\* C9: validateVariables fails exactly when M, the declared names whose
\* required is not false, whose default is undefined and that are no key of
\* the supplied variables, is not empty, and the error names every member of
\* M; a supplied empty string counts as supplied.
C9_FailsExactlyOnMissingRequired ==
  pc = "validated" =>
    /\ vresult.ok <=> (M = {})
    /\ ~vresult.ok => (vresult.err.kind = "MissingVariableError"
                        /\ Range(vresult.err.tokens) = M)

-----------------------------------------------------------------------------
(* C10 *)

\* the key of an entry as the resolver returns it
ResolvedKey(k) == resolveTokens(k, Ctx, 0).val

\* C10 as worded, for one object and the object interpolate returned for it:
\* the value of every entry with a token in its key is held under the
\* resolved key, and nothing is held under the original key.
RECURSIVE KeysResolved(_, _)
KeysResolved(in, out) ==
  IF in.t = "obj"
  THEN /\ out.t = "obj"
       /\ \A i \in DOMAIN in.entries :
            LET k == in.entries[i][1]
                v == in.entries[i][2]
            IN /\ ResolvedKey(k) \in Keys(out.entries)
               /\ MatchAllFrom(k, 1) # {} =>
                    /\ Get(out.entries, ResolvedKey(k)) = walkAndInterpolate(v, Ctx).val
                    /\ k \notin Keys(out.entries)
               /\ KeysResolved(v, Get(out.entries, ResolvedKey(k)))
  ELSE IF in.t = "arr"
  THEN /\ out.t = "arr"
       /\ Len(out.items) = Len(in.items)
       /\ \A i \in DOMAIN in.items : KeysResolved(in.items[i], out.items[i])
  ELSE TRUE

\* C10: interpolate resolves tokens in object keys at every depth of
\* destination and message: the output holds the entry's interpolated value
\* under the resolved key and no entry under the original key.
C10_KeysInterpolated ==
  (pc = "interpolated" /\ iresult.ok) =>
    /\ KeysResolved(template.destination, iresult.val.destination)
    /\ KeysResolved(template.message, iresult.val.message)

\* the entries after i of the same object that resolve to the same key
LaterSameKey(entries, i) ==
  { j \in DOMAIN entries : j > i /\ ResolvedKey(entries[j][1]) = ResolvedKey(entries[i][1]) }

\* C10 as amended, for one object and the object interpolate returned for it
RECURSIVE KeysResolvedLastWins(_, _)
KeysResolvedLastWins(in, out) ==
  IF in.t = "obj"
  THEN /\ out.t = "obj"
       /\ \A i \in DOMAIN in.entries :
            LET k == in.entries[i][1]
                v == in.entries[i][2]
            IN /\ ResolvedKey(k) \in Keys(out.entries)
               /\ LaterSameKey(in.entries, i) = {} =>
                    /\ Get(out.entries, ResolvedKey(k)) = walkAndInterpolate(v, Ctx).val
                    /\ KeysResolvedLastWins(v, Get(out.entries, ResolvedKey(k)))
               /\ (MatchAllFrom(k, 1) # {} /\ k \in Keys(out.entries)) =>
                    \E j \in DOMAIN in.entries : ResolvedKey(in.entries[j][1]) = k
  ELSE IF in.t = "arr"
  THEN /\ out.t = "arr"
       /\ Len(out.items) = Len(in.items)
       /\ \A i \in DOMAIN in.items : KeysResolvedLastWins(in.items[i], out.items[i])
  ELSE TRUE

\* C10 (amended): interpolate resolves tokens in object keys at every depth
\* of destination and message: the output holds an entry under every
\* resolved key, with the entry's interpolated value unless a later entry of
\* the same object resolves to the same key, and holds an entry under the
\* original key only when some entry of the object resolves to that text; a
\* key may resolve to the empty string.
C10_KeysInterpolatedLastWins ==
  (pc = "interpolated" /\ iresult.ok) =>
    /\ KeysResolvedLastWins(template.destination, iresult.val.destination)
    /\ KeysResolvedLastWins(template.message, iresult.val.message)

\* a nested object whose key holds a token came back under the resolved key,
\* here the empty string
C10_Witness ==
  /\ pc = "interpolated"
  /\ iresult.ok
  /\ \E i \in DOMAIN template.message.entries :
       LET v == template.message.entries[i][2] IN
       /\ v.t = "arr"
       /\ v.items[1].t = "obj"
       /\ MatchAllFrom(v.items[1].entries[1][1], 1) # {}
       /\ Keys(iresult.val.message.entries[i][2].items[1].entries) = { << >> }

-----------------------------------------------------------------------------
(* C11 *)

\* the stages of dispatch before the dry-run return or the send
StageOrder ==
  <<"load", "schema", "variables", "credentials", "interpolate", "adapter",
    "compile", "validate">>

\* the stage ended without throwing, on the input the pipeline gives it
StageSucceeded(stage) ==
  CASE stage = "schema" -> validateSchema(template).ok
    [] stage = "variables" -> vresult = validateVariables(template, vars) /\ vresult.ok
    [] stage = "interpolate" -> iresult = interpolate(template, vars, env, seed) /\ iresult.ok
    [] stage = "adapter" -> getAdapter(Prop(iresult.val.destination, S_service)).ok
    [] stage = "compile" -> cresult = compile(iresult.val.message) /\ cresult.ok
    [] stage = "validate" -> mresult = validate(cresult.val) /\ mresult.ok
    [] OTHER -> TRUE

\* thrown is what the stage threw
StageError(stage, thrown) ==
  /\ ~thrown.ok
  /\ CASE stage = "load" -> thrown.err.kind \in LoadOutcomes \ {"loaded"}
       [] stage = "schema" -> thrown = validateSchema(template)
       [] stage = "variables" -> thrown = validateVariables(template, vars)
       [] stage = "credentials" -> thrown.err.kind = "MissingCredentialsError"
       [] stage = "interpolate" -> thrown = interpolate(template, vars, env, seed)
       [] stage = "adapter" -> thrown = getAdapter(Prop(iresult.val.destination, S_service))
       [] stage = "compile" -> thrown = compile(iresult.val.message)
       [] stage = "validate" -> thrown = validate(cresult.val)
       [] stage = "send" -> thrown # NotRun
       [] OTHER -> FALSE

\* C11: in every run of dispatch the stages run in the order load, schema
\* validation, required-variable check, credential resolution, interpolation,
\* adapter lookup, compile (on the interpolated message), validate (on the
\* compiled message), then dry-run return or send, each at most once and
\* only after all earlier stages succeeded; when a stage fails no later stage
\* runs (send is never called, no request is made) and dispatch rejects with
\* that stage's error.
C11_StagesInOrder ==
  /\ Len(stages) <= Len(StageOrder) + 1
  /\ \A i \in DOMAIN stages :
       /\ IF i <= Len(StageOrder) THEN stages[i] = StageOrder[i]
          ELSE stages[i] \in {"dryrun", "send"}
       /\ (i < Len(stages) \/ pc # "rejected") => StageSucceeded(stages[i])
  /\ pc = "rejected" => StageError(stages[Len(stages)], dresult)
  /\ pc # "rejected" => dresult.ok \/ dresult = NotRun
  /\ "send" \notin Range(stages) => (io = << >> /\ delivered = << >>)

\* adapter.validate rejected the compiled message of a live run: the send
\* was never started
C11_Witness ==
  /\ pc = "rejected"
  /\ ~opts.dryRun
  /\ stages = StageOrder
  /\ dresult = AdapterValidationError
  /\ io = << >>

-----------------------------------------------------------------------------
(* C12 *)

\* C12: a dispatch with dryRun never calls send and makes no request on any
\* path; when all earlier stages succeeded it returns success with
\* resolvedMessage equal to the compiled payload and no response.  A
\* dispatch without dryRun that succeeds returns the send response and no
\* resolvedMessage.
C12_DryRunNeverSends ==
  /\ opts.dryRun =>
       /\ "send" \notin Range(stages)
       /\ io = << >>
       /\ delivered = << >>
       /\ (Len(stages) >= Len(StageOrder) /\ StageSucceeded("validate")) => pc # "rejected"
       /\ pc = "returned" =>
            /\ dresult.ok
            /\ dresult.val.success
            /\ DOMAIN dresult.val = {"success", "service", "templateName", "resolvedMessage"}
            /\ dresult.val.resolvedMessage = compile(iresult.val.message).val
  /\ (~opts.dryRun /\ pc = "returned") =>
       /\ dresult.ok
       /\ dresult.val.success
       /\ DOMAIN dresult.val = {"success", "service", "templateName", "response"}
       /\ dresult.val.response = Accepted
       /\ io[Len(io)].url = SLACK_POST_MESSAGE_URL

\* a dry run of a DSL message returned the compiled payload
C12_Witness ==
  /\ opts.dryRun
  /\ pc = "returned"
  /\ isDSLMessage(iresult.val.message)
  /\ dresult.val.resolvedMessage # iresult.val.message
  /\ io = << >>

-----------------------------------------------------------------------------
(* C13 *)

\* C13: whenever a send ends in failure nothing has been delivered to the
\* conversation: no file was shared by a completed upload and no message was
\* posted, with zero, one or several entries in destination.files.
C13_NoPartialSend ==
  pc = "rejected" => delivered = << >>

-----------------------------------------------------------------------------
(* Vocabulary of the compiler properties *)

\* compile has been applied to msg
Compiled == pc \in {"compiled", "checked"}

MsgBlocks == Prop(msg, S_blocks)
OutBlocks == Prop(cresult.val, S_blocks)

\* carries a literal type field
Typed(x) == x.t = "obj" /\ S_type \in Keys(x.entries)

\* an object carrying one of the shorthand keys
ExposesShorthand(x) == x.t = "obj" /\ Keys(x.entries) \cap SHORTHAND_BLOCK_KEYS # {}

\* blocks is a non-empty array and at least one block exposes a shorthand key
DSLByClaim ==
  /\ MsgBlocks.t = "arr"
  /\ \E i \in DOMAIN MsgBlocks.items : ExposesShorthand(MsgBlocks.items[i])

ELEMENT_KEYS ==
  { S_raw, S_button, S_overflow, S_datepicker, S_timepicker, S_select, S_multi_select }

\* the elements the compiler reads in a block: the elements of an actions
\* block, the accessory of a section
BlockElements(b) ==
  IF b.t = "obj" /\ Keys(b.entries) = {S_actions}
     /\ Prop(Prop(b, S_actions), S_elements).t = "arr"
  THEN Prop(Prop(b, S_actions), S_elements).items
  ELSE IF b.t = "obj" /\ Keys(b.entries) = {S_section}
          /\ Truthy(Prop(Prop(b, S_section), S_accessory))
  THEN << Prop(Prop(b, S_section), S_accessory) >>
  ELSE << >>

\* where the compiler puts them in the compiled block
OutElements(b, out) ==
  IF Keys(b.entries) = {S_actions} THEN Prop(out, S_elements).items
  ELSE << Prop(out, S_accessory) >>

-----------------------------------------------------------------------------
(* C14 *)

\* C14: compiling a message with no shorthand key in any block (blocks
\* absent, not an array, empty, or holding no object with a shorthand key)
\* returns a value equal to the input, all top-level fields and all blocks
\* kept, and raises no error.
C14_NoShorthandUnchanged ==
  (Compiled /\ ~DSLByClaim) => cresult = OkNode(msg)

\* a message of native and unrecognized blocks with an extra top-level field
C14_Witness ==
  /\ Compiled
  /\ ~DSLByClaim
  /\ MsgBlocks.t = "arr"
  /\ Len(MsgBlocks.items) >= 1
  /\ Own(msg, S_foo)
  /\ cresult.val = msg

-----------------------------------------------------------------------------
(* C15 *)

\* C15: any block, and any element of an actions block or accessory of a
\* section, that carries a literal type field is returned unchanged by the
\* compiler, whatever other keys it carries, and compiling it raises no
\* error.
C15_NativePassThrough ==
  (Compiled /\ DSLByClaim) =>
    \A i \in DOMAIN MsgBlocks.items :
      LET b == MsgBlocks.items[i] IN
      /\ Typed(b) =>
           /\ compileBlock(b) = OkNode(b)
           /\ cresult.ok => OutBlocks.items[i] = b
      /\ \A j \in DOMAIN BlockElements(b) :
           LET el == BlockElements(b)[j] IN
           Typed(el) =>
             /\ compileElement(el) = OkNode(el)
             /\ cresult.ok => OutElements(b, OutBlocks.items[i])[j] = el

-----------------------------------------------------------------------------
(* C16 *)

\* an object whose only key is raw
RawOnly(x) == x.t = "obj" /\ Keys(x.entries) = {S_raw}

\* C16: compiling {blocks: [{raw: X}]} yields a blocks array whose only
\* entry is X, nothing added, removed or changed; an element {raw: X} of an
\* actions block or as a section accessory compiles to exactly X.
C16_RawRoundTrip ==
  (Compiled /\ MsgBlocks.t = "arr") =>
    /\ (Keys(msg.entries) = {S_blocks} /\ Len(MsgBlocks.items) = 1
          /\ RawOnly(MsgBlocks.items[1]))
         => cresult = OkNode(One(S_blocks, Arr(<< Prop(MsgBlocks.items[1], S_raw) >>)))
    /\ \A i \in DOMAIN MsgBlocks.items :
         LET b == MsgBlocks.items[i] IN
         \A j \in DOMAIN BlockElements(b) :
           LET el == BlockElements(b)[j] IN
           RawOnly(el) =>
             /\ compileElement(el) = OkNode(Prop(el, S_raw))
             /\ cresult.ok => OutElements(b, OutBlocks.items[i])[j] = Prop(el, S_raw)
             /\ (Len(MsgBlocks.items) = 1 /\ Len(BlockElements(b)) = 1) => cresult.ok

\* a raw element without a type field came out of an actions block as it is
C16_Witness ==
  /\ Compiled
  /\ cresult.ok
  /\ MsgBlocks.t = "arr"
  /\ Len(MsgBlocks.items) = 2
  /\ MsgBlocks.items[1] = One(S_actions, One(S_elements, Arr(<< One(S_raw, Untyped) >>)))
  /\ Prop(OutBlocks.items[1], S_elements) = Arr(<< Untyped >>)

-----------------------------------------------------------------------------
(* C17 *)

\* an object with none of the known keys and no type field
IsUnrecognizedBlock(x) == x.t = "obj" /\ ~Typed(x) /\ ~ExposesShorthand(x)
IsUnrecognizedElement(x) ==
  x.t = "obj" /\ ~Typed(x) /\ Keys(x.entries) \cap ELEMENT_KEYS = {}

\* msg holds an unrecognized block, or an unrecognized element in a block
\* the compiler reads
HasUnrecognized ==
  /\ MsgBlocks.t = "arr"
  /\ \E i \in DOMAIN MsgBlocks.items :
       \/ IsUnrecognizedBlock(MsgBlocks.items[i])
       \/ \E j \in DOMAIN BlockElements(MsgBlocks.items[i]) :
            IsUnrecognizedElement(BlockElements(MsgBlocks.items[i])[j])

UnrecognizedConstruct == { UnknownBlock, UnknownElement }

\* C17: for every message given to the compiler, a block or element with
\* none of the known shorthand keys and no type field makes compilation fail
\* with an unrecognized-construct error; it is never passed through into the
\* output.
C17_UnrecognizedFails ==
  (Compiled /\ HasUnrecognized) => cresult \in UnrecognizedConstruct

\* some block of msg fails on its own with another error
OtherFailure ==
  \E i \in DOMAIN MsgBlocks.items :
    /\ ~compileBlock(MsgBlocks.items[i]).ok
    /\ compileBlock(MsgBlocks.items[i]) \notin UnrecognizedConstruct

\* C17 (amended): in a message the adapter treats as DSL (at least one block
\* exposes a shorthand key) a block or element with none of the known keys
\* and no type field makes compilation fail, with the unrecognized-construct
\* error unless another block fails with an error of its own; it is never
\* passed into the output.  A message in which no block exposes a shorthand
\* key is not compiled: it is returned unchanged, unrecognized blocks
\* included.
C17_UnrecognizedFailsInDSL ==
  (Compiled /\ HasUnrecognized) =>
    IF DSLByClaim
    THEN ~cresult.ok /\ (cresult \in UnrecognizedConstruct \/ OtherFailure)
    ELSE cresult = OkNode(msg)

\* an unrecognized block after a shorthand block stopped the compilation
C17_Witness ==
  /\ Compiled
  /\ DSLByClaim
  /\ Len(MsgBlocks.items) = 2
  /\ ExposesShorthand(MsgBlocks.items[1])
  /\ IsUnrecognizedBlock(MsgBlocks.items[2])
  /\ cresult = UnknownBlock

-----------------------------------------------------------------------------
(* C18 *)

\* C18: a message is detected as DSL exactly when blocks is a non-empty
\* array and at least one block is an object exposing a shorthand key,
\* however many native blocks are mixed in and wherever they stand; the
\* output blocks of such a message have the length and order of the input,
\* every native block unchanged at its position and every shorthand block
\* replaced at its position by its compiled native form.
C18_MixedMessages ==
  Compiled =>
    /\ ~DSLByClaim => cresult = OkNode(msg)
    /\ (DSLByClaim /\ cresult.ok) =>
         /\ Keys(cresult.val.entries) \subseteq
              { S_text, S_thread_ts, S_reply_broadcast, S_unfurl_links, S_unfurl_media,
                S_blocks }
         /\ OutBlocks.t = "arr"
         /\ Len(OutBlocks.items) = Len(MsgBlocks.items)
         /\ \A i \in DOMAIN MsgBlocks.items :
              LET b == MsgBlocks.items[i] IN
              IF Typed(b) THEN OutBlocks.items[i] = b
              ELSE /\ OutBlocks.items[i] = compileBlock(b).val
                   /\ ~Own(b, S_raw) => Typed(OutBlocks.items[i])

\* a native block first, a shorthand block second
C18_Witness ==
  /\ Compiled
  /\ DSLByClaim
  /\ cresult.ok
  /\ Len(MsgBlocks.items) = 2
  /\ MsgBlocks.items[1] = NativeSection
  /\ MsgBlocks.items[2] = One(S_header, T_h)
  /\ OutBlocks.items[1] = NativeSection
  /\ Prop(OutBlocks.items[2], S_type) = Str(S_header)

-----------------------------------------------------------------------------
(* C19 *)

PassThroughFields ==
  { S_text, S_thread_ts, S_reply_broadcast, S_unfurl_links, S_unfurl_media }

\* C19: when a DSL message is compiled, each of text, thread_ts,
\* reply_broadcast, unfurl_links, unfurl_media present in the input is
\* present in the output with the identical value, the empty string and
\* false included.
C19_TopLevelFieldsKept ==
  (Compiled /\ DSLByClaim /\ cresult.ok) =>
    \A k \in PassThroughFields :
      Own(msg, k) => (Own(cresult.val, k) /\ Prop(cresult.val, k) = Prop(msg, k))

-----------------------------------------------------------------------------
(* C20 *)

\* the block is compiled by compileContext
ContextBlock(b) ==
  /\ b.t = "obj"
  /\ ~Typed(b)
  /\ Keys(b.entries) \cap {S_raw, S_header, S_divider, S_section} = {}
  /\ Own(b, S_context)

\* C20: every image item the compiler emits inside a context block carries
\* exactly one image source, image_url or slack_file, never both and never
\* neither, whatever the input item sets.
C20_OneImageSource ==
  (Compiled /\ DSLByClaim /\ cresult.ok) =>
    \A i \in DOMAIN MsgBlocks.items :
      ContextBlock(MsgBlocks.items[i]) =>
        \A j \in DOMAIN Prop(OutBlocks.items[i], S_elements).items :
          LET item == Prop(OutBlocks.items[i], S_elements).items[j] IN
          Prop(item, S_type) = Str(S_image) =>
            (Own(item, S_image_url) /\ ~Own(item, S_slack_file))
            \/ (~Own(item, S_image_url) /\ Own(item, S_slack_file))

-----------------------------------------------------------------------------
(* C21 *)

\* the native formatted-text objects, written out
PlainTextObject(s) ==
  Obj(<< <<S_type, Str(S_plain_text)>>, <<S_text, s>>, <<S_emoji, Bool(TRUE)>> >>)
MrkdwnObject(t) == Obj(<< <<S_type, Str(S_mrkdwn)>>, <<S_text, t>> >>)

\* a block with the one key k
BlockOf(b, k) == b.t = "obj" /\ Keys(b.entries) = {k}

\* what the claim gives for a basic shorthand block, as far as it says
BasicShorthandAsStated(b, out) ==
  /\ (BlockOf(b, S_header) /\ Prop(b, S_header).t = "str") =>
       out = OkNode(Obj(<< <<S_type, Str(S_header)>>,
                           <<S_text, PlainTextObject(Prop(b, S_header))>> >>))
  /\ (BlockOf(b, S_divider) /\ Prop(b, S_divider) = Bool(TRUE)) =>
       out = OkNode(Obj(<< <<S_type, Str(S_divider)>> >>))
  /\ (BlockOf(b, S_section) /\ Prop(b, S_section).t = "obj") =>
       LET v == Prop(b, S_section) IN
       /\ (Keys(v.entries) = {S_text} /\ Prop(v, S_text).t = "str") =>
            out = OkNode(Obj(<< <<S_type, Str(S_section)>>,
                                <<S_text, MrkdwnObject(Prop(v, S_text))>> >>))
       /\ (Prop(v, S_fields).t = "arr" /\ out.ok) =>
            Prop(out.val, S_fields) =
              Arr([j \in DOMAIN Prop(v, S_fields).items |->
                     MrkdwnObject(Prop(v, S_fields).items[j])])

\* C21: {header: s} compiles to a header block with the plain_text object of
\* s (emoji true), {divider: true} to exactly {type: 'divider'},
\* {section: {text: t}} to a section block with the mrkdwn object of t, and
\* every entry of a section's fields compiles in order to a mrkdwn object,
\* for every string s and t.
C21_BasicShorthands ==
  (Compiled /\ DSLByClaim) =>
    \A i \in DOMAIN MsgBlocks.items :
      /\ BasicShorthandAsStated(MsgBlocks.items[i], compileBlock(MsgBlocks.items[i]))
      /\ cresult.ok =>
           BasicShorthandAsStated(MsgBlocks.items[i], OkNode(OutBlocks.items[i]))

-----------------------------------------------------------------------------
(* C22 *)

\* absent or falsy
Falsy(x) == x \in { Undefined, Null, Bool(FALSE), Str(<< >>), Num(0) }

\* C22: validate fails with an adapter-validation error exactly when both
\* blocks and text are absent or falsy, or blocks is defined and is not an
\* array; otherwise it returns without error; the message it was given is
\* left as it was.
C22_ValidateExactly ==
  pc = "checked" =>
    LET b == Prop(cresult.val, S_blocks)
        t == Prop(cresult.val, S_text)
    IN /\ IF (Falsy(b) /\ Falsy(t)) \/ (b # Undefined /\ b.t # "arr")
          THEN mresult = AdapterValidationError
          ELSE mresult = OkNode(Undefined)
       /\ cresult = compile(msg)
       /\ (b = Arr(<< >>) => mresult.ok)
       /\ ((b = Undefined /\ t = T_h) => mresult.ok)
       /\ (cresult.val = Obj(<< >>) => ~mresult.ok)
       /\ (b = T_h => ~mresult.ok)

\* blocks that is a string next to a text is rejected
C22_Witness ==
  /\ pc = "checked"
  /\ Prop(cresult.val, S_blocks) = T_h
  /\ Prop(cresult.val, S_text) = T_h
  /\ mresult = AdapterValidationError

-----------------------------------------------------------------------------
(* C23 *)

\* send has been called
SendCalled == "send" \in Range(stages)

\* the botToken credential is present and non-empty
TokenPresent == S_botToken \in DOMAIN credentials /\ credentials[S_botToken] # << >>

\* destination.channel is present and non-empty
ChannelPresent ==
  /\ Own(iresult.val.destination, S_channel)
  /\ Prop(iresult.val.destination, S_channel) \notin { Null, Str(<< >>) }

\* C23: send makes no request and reads no file unless both the botToken
\* credential and destination.channel are present and non-empty; a missing
\* token fails with a missing-credentials error, a missing channel with a
\* token present fails with an adapter-validation error, and with both
\* missing the missing-credentials error is raised.
C23_NoRequestWithoutTokenAndChannel ==
  /\ io # << >> => (SendCalled /\ TokenPresent /\ ChannelPresent)
  /\ (SendCalled /\ ~TokenPresent) =>
       /\ pc = "rejected"
       /\ dresult = Throw("MissingCredentialsError", << >>)
       /\ io = << >> /\ delivered = << >>
  /\ (SendCalled /\ TokenPresent /\ ~ChannelPresent) =>
       /\ pc = "rejected"
       /\ dresult = Throw("AdapterValidationError", << >>)
       /\ io = << >> /\ delivered = << >>

\* send was called with neither a token nor a channel
C23_Witness ==
  /\ SendCalled
  /\ ~TokenPresent
  /\ ~ChannelPresent
  /\ dresult = Throw("MissingCredentialsError", << >>)
  /\ io = << >>

-----------------------------------------------------------------------------
(* C25 *)

\* destination.files as send sees it: the list, or nothing to upload
FilesToSend ==
  IF SendCalled /\ SendFiles.t = "arr" THEN SendFiles.items ELSE << >>

\* what a logged operation is
OpKind(e) == IF e.op = "readFile" THEN "readFile" ELSE e.url

\* the operations of a complete send of n files, in order
UploadSteps ==
  << "readFile", SLACK_UPLOAD_URL_EXTERNAL, "upload_url", SLACK_COMPLETE_UPLOAD_URL >>
ExpectedOps(n) ==
  [j \in 1..(4 * n + 1) |->
     IF j = 4 * n + 1 THEN SLACK_POST_MESSAGE_URL ELSE UploadSteps[((j - 1) % 4) + 1]]

\* files whose complete-upload reported ok
FilesShared == Len(SelectSeq(delivered, LAMBDA d : d.kind = "file"))

\* C25: with files to send, the files are processed one after another in
\* list order, each by obtain-upload-URL, transfer-bytes, complete-upload in
\* that order; a step starts only after the previous step of the file
\* succeeded, the next file only after the previous file's complete-upload
\* reported ok, the chat message is posted only after every file's
\* complete-upload reported ok, and a non-ok obtain-upload-URL or
\* complete-upload ends the send with an error and no further request.
C25_UploadStepsInOrder ==
  (SendCalled /\ io # << >>) =>
    LET n == Len(FilesToSend) IN
    /\ Len(io) <= 4 * n + 1
    /\ \A j \in DOMAIN io :
         /\ OpKind(io[j]) = ExpectedOps(n)[j]
         \* everything before operation j's file was shared
         /\ FilesShared >= (j - 1) \div 4
         /\ (j <= 4 * n /\ j % 4 = 1) => io[j].path = Prop(FilesToSend[((j - 1) \div 4) + 1], S_path).s
         /\ (j <= 4 * n /\ j % 4 = 2) =>
              Prop(io[j].body, S_filename) = Filename(FilesToSend[((j - 1) \div 4) + 1])
    /\ FilesShared <= Len(io) \div 4
    /\ pc = "returned" => (Len(io) = 4 * n + 1 /\ FilesShared = n)
    /\ pc = "readFile" => (Len(io) % 4 = 0 /\ FilesShared = Len(io) \div 4)
    /\ pc = "getUploadURL" => Len(io) % 4 = 1
    /\ pc = "transfer" => Len(io) % 4 = 2
    /\ pc = "completeUpload" => Len(io) % 4 = 3
    /\ pc = "postMessage" => (Len(io) = 4 * n /\ FilesShared = n)
    /\ dresult = Throw("Error: Slack file upload error (getUploadURL)", << >>) =>
         (pc = "rejected" /\ Len(io) % 4 = 2 /\ Len(io) < 4 * n)
    /\ dresult = Throw("Error: Slack file upload error (completeUpload)", << >>) =>
         (pc = "rejected" /\ Len(io) % 4 = 0 /\ FilesShared = (Len(io) \div 4) - 1)

\* two files were uploaded and the message posted
C25_Witness ==
  /\ pc = "returned"
  /\ Len(FilesToSend) = 2
  /\ Len(io) = 9
  /\ FilesShared = 2
  /\ OpKind(io[9]) = SLACK_POST_MESSAGE_URL

-----------------------------------------------------------------------------
(* C26 *)

\* a string that holds no token
TokenFree(str) == MatchAllFrom(str, 1) = {}

\* C26 for one node and the node interpolate returned for it: leaves that are
\* no string and strings without a token are the same, arrays keep length and
\* order, and every entry of an object is found under its key (the resolved
\* text of the key when the key holds a token)
RECURSIVE OnlyTokensChanged(_, _)
OnlyTokensChanged(in, out) ==
  IF in.t = "obj"
  THEN /\ out.t = "obj"
       /\ \A i \in DOMAIN in.entries :
            /\ ResolvedKey(in.entries[i][1]) \in Keys(out.entries)
            /\ TokenFree(in.entries[i][1]) => ResolvedKey(in.entries[i][1]) = in.entries[i][1]
            /\ OnlyTokensChanged(in.entries[i][2], Get(out.entries, ResolvedKey(in.entries[i][1])))
  ELSE IF in.t = "arr"
  THEN /\ out.t = "arr"
       /\ Len(out.items) = Len(in.items)
       /\ \A i \in DOMAIN in.items : OnlyTokensChanged(in.items[i], out.items[i])
  ELSE IF in.t = "str"
  THEN out.t = "str" /\ (TokenFree(in.s) => out = in)
  ELSE out = in

\* C26: interpolate changes nothing except token text: number, boolean and
\* null leaves and strings without a token are in the output at the same
\* path with the same value, arrays keep length and order, and version, name
\* and variables are returned unchanged.
C26_OnlyTokensChange ==
  (pc = "interpolated" /\ iresult.ok) =>
    /\ OnlyTokensChanged(template.destination, iresult.val.destination)
    /\ OnlyTokensChanged(template.message, iresult.val.message)
    /\ iresult.val.version = template.version
    /\ iresult.val.name = template.name
    /\ iresult.val.variables = template.variables

-----------------------------------------------------------------------------
(* C27 *)

\* C27 for one node and the node interpolate returned for it: every object
\* has as many entries as it had
RECURSIVE EntriesKept(_, _)
EntriesKept(in, out) ==
  IF in.t = "obj"
  THEN /\ out.t = "obj"
       /\ Len(out.entries) = Len(in.entries)
       /\ \A i \in DOMAIN in.entries : EntriesKept(in.entries[i][2], out.entries[i][2])
  ELSE IF in.t = "arr"
  THEN /\ out.t = "arr"
       /\ Len(out.items) = Len(in.items)
       /\ \A i \in DOMAIN in.items : EntriesKept(in.items[i], out.items[i])
  ELSE TRUE

\* C27: every object of destination and message has as many entries after
\* interpolation as before, also when two different keys resolve to the same
\* string; no entry's value is dropped or overwritten.
C27_EveryEntryKept ==
  (pc = "interpolated" /\ iresult.ok) =>
    /\ EntriesKept(template.destination, iresult.val.destination)
    /\ EntriesKept(template.message, iresult.val.message)

-----------------------------------------------------------------------------
(* C28 *)

\* interpolate was run on a template the required-variable check accepted,
\* and every token of destination and message names a declared variable
ValidatedAndDeclared ==
  /\ pc = "interpolated"
  /\ vresult.ok
  /\ UsedTokens # {}
  /\ UsedTokens \subseteq Keys(DeclaredVariables)

\* C28: if validateVariables accepts the template and the supplied
\* variables, and every token used in destination and message is the name of
\* a declared variable, interpolate with the same variables and any
\* environment does not fail with a missing-variable error.
C28_ValidatedNeverMissing ==
  ValidatedAndDeclared => ~(~iresult.ok /\ iresult.err.kind = "MissingVariableError")

\* the declaration is of a required variable, or gives a default that holds
\* no token
RequiredOrPlainDefault(decl) ==
  IF decl.hasDefault THEN TokenFree(decl.default) ELSE decl.required # "false"

\* C28 (amended): if validateVariables accepts the template and the supplied
\* variables, and every token used in destination and message is the name of
\* a declared variable that either has a default holding no token or, having
\* no default, is not declared with required: false, then interpolate with
\* the same variables and any environment does not fail with a
\* missing-variable error.  An unsupplied variable declared required: false
\* without a default passes the check and fails interpolation, and so can a
\* default that holds a token.
C28_ValidatedRequiredNeverMissing ==
  (ValidatedAndDeclared
     /\ \A n \in UsedTokens : RequiredOrPlainDefault(Get(DeclaredVariables, n)))
    => ~(~iresult.ok /\ iresult.err.kind = "MissingVariableError")

\* a required variable without default was supplied and its token resolved
C28_Witness ==
  /\ ValidatedAndDeclared
  /\ \A n \in UsedTokens : RequiredOrPlainDefault(Get(DeclaredVariables, n))
  /\ \E n \in UsedTokens :
       /\ ~Get(DeclaredVariables, n).hasDefault
       /\ n \in DOMAIN vars
  /\ iresult.ok

-----------------------------------------------------------------------------
(* C29 *)

\* the chat.postMessage requests made so far
PostMessageRequests == SelectSeq(io, LAMBDA e : OpKind(e) = SLACK_POST_MESSAGE_URL)

\* C29: in every chat.postMessage request send makes, the payload's channel
\* is destination.channel, for every message that passed compile and
\* validate, native messages with extra top-level fields included.
C29_PostedToDestination ==
  \A j \in DOMAIN PostMessageRequests :
    Prop(PostMessageRequests[j].body, S_channel) = Prop(iresult.val.destination, S_channel)

-----------------------------------------------------------------------------
(* C30 *)

\* C30: for every message on which compile succeeds, every entry of the
\* output blocks carries a type field, and compiling the output again returns
\* an equal payload, raw blocks included.
C30_NativeAndIdempotent ==
  (Compiled /\ cresult.ok) =>
    /\ OutBlocks.t = "arr" => \A i \in DOMAIN OutBlocks.items : Typed(OutBlocks.items[i])
    /\ compile(cresult.val) = cresult

\* a block the compiler answers with its raw fragment
RawBlock(b) == b.t = "obj" /\ ~Typed(b) /\ Own(b, S_raw)

\* every raw fragment given as a block carries a type field
RawFragmentsTyped ==
  MsgBlocks.t = "arr" =>
    \A i \in DOMAIN MsgBlocks.items :
      RawBlock(MsgBlocks.items[i]) => Typed(Prop(MsgBlocks.items[i], S_raw))

\* C30 (amended): for every DSL message on which compile succeeds, every
\* entry of the output blocks that does not come from a raw block carries a
\* type field; and for every message on which compile succeeds and in which
\* every raw fragment given as a block carries a type field, compiling the
\* output again returns an equal payload.  A raw fragment is emitted as it
\* is, typed or not, and a message that is not DSL is returned unchanged
\* whatever its blocks hold.
C30_NativeAndIdempotentTypedRaw ==
  (Compiled /\ cresult.ok) =>
    /\ DSLByClaim =>
         \A i \in DOMAIN MsgBlocks.items :
           ~RawBlock(MsgBlocks.items[i]) => Typed(OutBlocks.items[i])
    /\ RawFragmentsTyped => compile(cresult.val) = cresult
    /\ ~DSLByClaim => compile(cresult.val) = OkNode(msg)

\* a typed raw fragment next to a shorthand block, compiled and compiled again
C30_Witness ==
  /\ Compiled
  /\ cresult.ok
  /\ DSLByClaim
  /\ Len(MsgBlocks.items) = 2
  /\ MsgBlocks.items[1] = One(S_raw, NativeSection)
  /\ MsgBlocks.items[2] = One(S_divider, Bool(TRUE))
  /\ cresult.val # msg
  /\ compile(cresult.val) = cresult


\* the call r run alone: what it resolves, compiles and addresses from its
\* own arguments and the process environment
AloneResolved(r) == interpolate(r.template, r.vars, ProcessEnv, 1)
AloneCompiled(r) == compile(AloneResolved(r).val.message)
AloneChannel(r) == Prop(AloneResolved(r).val.destination, S_channel)
AloneFiles(r) == Prop(AloneResolved(r).val.destination, S_files).items
AloneToken(r) ==
  IF S_botToken \in DOMAIN r.credentials THEN Str(r.credentials[S_botToken]) ELSE Undefined

\* the request e is one the call r makes when run alone
AloneRequest(r, e) ==
  IF e.op = "readFile"
  THEN \E i \in DOMAIN AloneFiles(r) : e.path = Prop(AloneFiles(r)[i], S_path).s
  ELSE IF e.url = SLACK_POST_MESSAGE_URL
  THEN e.body = Payload(AloneChannel(r), AloneCompiled(r).val)
  ELSE IF e.url = SLACK_COMPLETE_UPLOAD_URL
  THEN \E i \in DOMAIN AloneFiles(r) :
         e.body = CompleteBody(AloneFiles(r)[i], Prop(UrlGranted, S_file_id), AloneChannel(r))
  ELSE IF e.url = SLACK_UPLOAD_URL_EXTERNAL
  THEN \E i \in DOMAIN AloneFiles(r) :
         e.body = Obj(<< <<S_filename, Filename(AloneFiles(r)[i])>>,
                         <<S_length, Num(Len(Disk[Prop(AloneFiles(r)[i], S_path).s]))>> >>)
  ELSE \E i \in DOMAIN AloneFiles(r) : e.body = Str(Disk[Prop(AloneFiles(r)[i], S_path).s])

\* the errors send can end with after the request e, run alone
AloneSendErrors(e) ==
  IF e.op = "readFile" THEN { Throw("ENOENT", << >>) }
  ELSE IF e.url = SLACK_POST_MESSAGE_URL
  THEN { HTTPError, Throw("Error: Slack API error", << >>) }
  ELSE IF e.url = SLACK_COMPLETE_UPLOAD_URL
  THEN { HTTPError, Throw("Error: Slack file upload error (completeUpload)", << >>) }
  ELSE IF e.url = SLACK_UPLOAD_URL_EXTERNAL
  THEN { HTTPError, Throw("Error: Slack file upload error (getUploadURL)", << >>) }
  ELSE { HTTPError }

\* the promise of the call r is what the call settles with when run alone,
\* given the outcomes of its own awaited steps
AloneResult(r) ==
  IF r.pc = "returned"
  THEN /\ r.dresult.ok
       /\ r.dresult.val.templateName = r.template.name
       /\ IF r.opts.dryRun
          THEN /\ r.dresult.val.resolvedMessage = AloneCompiled(r).val
               /\ r.io = << >>
          ELSE /\ r.dresult.val.response = Accepted
               /\ r.io # << >>
               /\ r.io[Len(r.io)].url = SLACK_POST_MESSAGE_URL
  ELSE IF r.pc = "rejected"
  THEN LET last == r.stages[Len(r.stages)] IN
       CASE last = "load" -> r.dresult \in { Throw(o, << >>) : o \in LoadOutcomes \ {"loaded"} }
         [] last = "schema" -> r.dresult = validateSchema(r.template)
         [] last = "variables" -> r.dresult = validateVariables(r.template, r.vars)
         [] last = "credentials" -> r.dresult \in { o \in CredentialOutcomes : ~o.ok }
         [] last = "interpolate" -> r.dresult = AloneResolved(r)
         [] last = "adapter" ->
              r.dresult = getAdapter(Prop(AloneResolved(r).val.destination, S_service))
         [] last = "compile" -> r.dresult = AloneCompiled(r)
         [] last = "validate" -> r.dresult = validate(AloneCompiled(r).val)
         [] last = "send" ->
              IF ~Truthy(AloneToken(r))
              THEN r.dresult = Throw("MissingCredentialsError", << >>) /\ r.io = << >>
              ELSE IF ~Truthy(AloneChannel(r))
              THEN r.dresult = AdapterValidationError /\ r.io = << >>
              ELSE r.io # << >> /\ r.dresult \in AloneSendErrors(r.io[Len(r.io)])
         [] OTHER -> FALSE
  ELSE r.dresult = NotRun

\* everything the call r holds is computed from its own arguments
AloneState(r) ==
  /\ \A i \in DOMAIN r.stages :
       \/ i <= Len(StageOrder) /\ r.stages[i] = StageOrder[i]
       \/ /\ i = Len(StageOrder) + 1
          /\ r.stages[i] = (IF r.opts.dryRun THEN "dryrun" ELSE "send")
  /\ "variables" \in Range(r.stages) => r.vresult = validateVariables(r.template, r.vars)
  /\ "interpolate" \in Range(r.stages) => r.iresult = AloneResolved(r)
  /\ "compile" \in Range(r.stages) =>
       r.msg = AloneResolved(r).val.message /\ r.cresult = AloneCompiled(r)
  /\ "validate" \in Range(r.stages) => r.mresult = validate(AloneCompiled(r).val)
  /\ "send" \notin Range(r.stages) => r.io = << >>
  /\ \A i \in DOMAIN r.io : AloneRequest(r, r.io[i])
  /\ AloneResult(r)

\* C24: two dispatch calls interleaved in any way at their awaits (load,
\* credentials, file read, the upload posts, the message post) are
\* independent.  At every point of every interleaving, each call's stage
\* log, intermediate values, requests and settled result (returned payload,
\* response or error) are the ones the call computes from its own arguments
\* when run alone; the state of the process that the calls read (the
\* environment, the clock) is never written; and everything the service
\* received was sent by one of the two calls as its own request.
C24_InvocationsIndependent ==
  suspended # << >> =>
    /\ AloneState(Local)
    /\ AloneState(suspended[1])
    /\ env = ProcessEnv
    /\ seed = 1
    /\ \A i \in DOMAIN delivered :
         \E r \in { Local, suspended[1] } :
           \E j \in DOMAIN r.io : r.io[j].op = "post" /\ r.io[j].body = delivered[i].body

\* two different calls both returned, after the second posted its message
\* between the first's upload and the first's message
C24_Witness ==
  /\ suspended # << >>
  /\ pc = "returned"
  /\ suspended[1].pc = "returned"
  /\ template.name = "files"
  /\ suspended[1].template.name = "text"
  /\ dresult # suspended[1].dresult
  /\ Len(delivered) = 3
  /\ delivered[1].kind = "file"
  /\ delivered[2] = [kind |-> "message",
                     body |-> Payload(Str(<<"#","c">>), One(S_text, Str(V_v)))]
  /\ delivered[3] = [kind |-> "message",
                     body |-> Payload(Str(V_e), cresult.val)]

=============================================================================
